---- MODULE Spec2Model ----
(***************************************************************************)
(* Model of theme_maker/palette.py (colour math, k-means extraction,       *)
(* accent selection, palette derivation, GNOME accent naming).             *)
(*                                                                         *)
(* Numbers.  The code computes in IEEE doubles.  The model computes every  *)
(* value as the exact rational <<n, d>> (d > 0, lowest terms) the double   *)
(* approximates, and carries the double's rounding error only where the    *)
(* code can observe it:                                                    *)
(*   - a comparison of two values whose exact values are equal sees the    *)
(*     signs of their rounding errors (-1, 0, 1), which the actions draw   *)
(*     as the input "rnd" (one per colour: the same colour always rounds   *)
(*     the same way);                                                      *)
(*   - int() of a value whose exact value is the integer n >= 1 returns n  *)
(*     or n - 1, which the actions draw as the input "fp".                 *)
(* A value the doubles compute exactly has rounding error 0.               *)
(***************************************************************************)
EXTENDS Integers, Sequences, FiniteSets, TLC

VARIABLES
    pc,             \* the function that has run: "idle" before any call
    rgb_in,         \* argument (r, g, b) of rgb_to_hsl
    accent_hex,     \* argument of generate_palette / get_gnome_accent_name
    wallpaper_path, \* argument of generate_palette
    rounding,       \* rounding signs of the doubles of this run ("rnd")
    truncation,     \* outcomes of the int() calls of this run ("fp")
    rgb_out,        \* round trip: hsl_to_rgb(rgb_to_hsl(rgb_in))
    hsl_seen,       \* the (h, s, l) rgb_to_hsl returned inside the call
    norm,           \* generate_palette: ah, a_s, al after lines 169-174
    palette,        \* generate_palette: the returned dict
    palette_other,  \* the dict of a second call with another wallpaper_path
    gnome_name,     \* get_gnome_accent_name: the returned name
    colors,         \* pick_accent: argument, a list of hex strings
    scored,         \* pick_accent: the list "scored" after its sort
    picked,         \* pick_accent: the returned colour
    pixels_in,      \* kmeans_colors: the sample; extract_colors: the image
    k_in,           \* kmeans_colors: k; extract_colors: num_colors
    max_iter_in,    \* kmeans_colors: max_iter
    kmeans,         \* kmeans_colors: what the call computed and returned
    filtered_out,   \* extract_colors: "filtered" as handed to kmeans_colors
    rng,            \* state of numpy's global random generator
    rng_at_call,    \* extract_colors: the generator state each run found
    results,        \* extract_colors: the lists returned by the runs so far
    args,           \* main: the parsed command line
    files,          \* main: the paths that exist
    detected,       \* main: what _detect_wallpaper returns ("" for None)
    theme_name,     \* main: name
    prompts,        \* main: the questions asked so far, with their answers
    events,         \* main: the calls made so far that read or write files
    exit_code,      \* main: the value returned, or the exception raised
    hsl_in,         \* argument (h, s, l) of hsl_to_rgb
    hexc_in,        \* argument hexc of lighten, darken, saturate, desaturate
    amount_in,      \* argument amount of the same
    adjusted,       \* the hex string the adjustment returned
    skip,           \* apply_theme: the argument skip, a list of names
    step,           \* apply_theme: the position of the loop in "steps"
    all_log,        \* apply_theme: the log so far
    ran             \* apply_theme: the steps called so far, and whether each raised

colourVars == <<rgb_in, accent_hex, wallpaper_path, rounding, truncation,
                rgb_out, hsl_seen, norm, palette, palette_other, gnome_name>>
accentVars == <<colors, scored, picked>>
kmeansVars == <<pixels_in, k_in, max_iter_in, kmeans, filtered_out, rng, rng_at_call,
               results>>
cliVars == <<args, files, detected, theme_name, prompts, events, exit_code>>
adjustVars == <<hsl_in, hexc_in, amount_in, adjusted>>
applyVars == <<skip, step, all_log, ran>>
vars == <<pc, colourVars, accentVars, kmeansVars, cliVars, adjustVars, applyVars>>

---------------------------------------------------------------------------
(* Integer helpers *)

Min(a, b) == IF a <= b THEN a ELSE b
Max(a, b) == IF a >= b THEN a ELSE b
Abs(a) == IF a < 0 THEN -a ELSE a

RECURSIVE GCD(_, _)
GCD(a, b) == IF b = 0 THEN a ELSE GCD(b, a % b)

(* Exact rationals <<n, d>>, d > 0, in lowest terms *)

QNorm(n, d) ==
    LET s == IF d < 0 THEN -1 ELSE 1
        g == GCD(Abs(n), Abs(d))
    IN  <<(s * n) \div g, (s * d) \div g>>

Q(n) == <<n, 1>>
QAdd(a, b) ==
    LET g == GCD(a[2], b[2])
    IN  QNorm(a[1] * (b[2] \div g) + b[1] * (a[2] \div g), a[2] * (b[2] \div g))
QNeg(a) == <<-a[1], a[2]>>
QSub(a, b) == QAdd(a, QNeg(b))
QMul(a, b) ==
    LET g1 == GCD(Abs(a[1]), b[2])
        g2 == GCD(Abs(b[1]), a[2])
    IN  IF a[1] = 0 \/ b[1] = 0 THEN <<0, 1>>
        ELSE <<(a[1] \div g1) * (b[1] \div g2), (a[2] \div g2) * (b[2] \div g1)>>
QDiv(a, b) == QMul(a, IF b[1] < 0 THEN <<-b[2], -b[1]>> ELSE <<b[2], b[1]>>)
QCmp(a, b) ==
    LET g == GCD(a[2], b[2])
        x == a[1] * (b[2] \div g)
        y == b[1] * (a[2] \div g)
    IN  IF x < y THEN -1 ELSE IF x > y THEN 1 ELSE 0
QLt(a, b) == QCmp(a, b) < 0
QLe(a, b) == QCmp(a, b) <= 0
QMin(a, b) == IF QLe(a, b) THEN a ELSE b
QMax(a, b) == IF QLe(b, a) THEN a ELSE b
QFloor(a) == a[1] \div a[2]
QIsInt(a) == a[2] = 1
\* x % m for m > 0 (Python's float %: the result has the sign of m)
QMod(a, m) == QSub(a, QMul(Q(QFloor(QDiv(a, m))), m))

(* A double: its exact value q and the sign e of its rounding error.  The
   order of two doubles is the order of (q, e). *)
FCmp(q1, e1, q2, e2) ==
    LET c == QCmp(q1, q2)
    IN  IF c # 0 THEN c ELSE IF e1 < e2 THEN -1 ELSE IF e1 > e2 THEN 1 ELSE 0

Signs == {-1, 0, 1}

---------------------------------------------------------------------------
(* Hex strings: a Python str is modelled as the sequence of its characters *)

HexDigits == <<"0", "1", "2", "3", "4", "5", "6", "7",
               "8", "9", "a", "b", "c", "d", "e", "f">>
UpperDigits == <<"0", "1", "2", "3", "4", "5", "6", "7",
                 "8", "9", "A", "B", "C", "D", "E", "F">>

IsHexChar(c) == \E i \in 1..16 : HexDigits[i] = c \/ UpperDigits[i] = c
\* int(c, 16) of one hex digit, either case
DigitVal(c) == (CHOOSE i \in 1..16 : HexDigits[i] = c \/ UpperDigits[i] = c) - 1

\* str.lstrip("#"): every leading "#" is removed
RECURSIVE lstrip_hash(_)
lstrip_hash(h) ==
    IF Len(h) > 0 /\ Head(h) = "#" THEN lstrip_hash(Tail(h)) ELSE h

\* h[i-1:i+1] in Python's 0-based slicing: the characters i and i + 1 of h
\* that exist
Slice2(h, i) == SubSeq(h, i, Min(i + 1, Len(h)))

\* int(x, 16) of a slice of at most two characters succeeds on one or two
\* hex digits, on a digit after a sign or a blank, and on a digit before a
\* blank; on anything else (the empty slice too) it raises ValueError
IntParses(x) ==
    \/ Len(x) = 1 /\ IsHexChar(x[1])
    \/ Len(x) = 2 /\ IsHexChar(x[1]) /\ (IsHexChar(x[2]) \/ x[2] = " ")
    \/ Len(x) = 2 /\ x[1] \in {"+", "-", " "} /\ IsHexChar(x[2])
Int16(x) ==
    IF Len(x) = 1 THEN DigitVal(x[1])
    ELSE IF x[1] = "-" THEN -DigitVal(x[2])
    ELSE IF x[1] \in {"+", " "} THEN DigitVal(x[2])
    ELSE IF x[2] = " " THEN DigitVal(x[1])
    ELSE 16 * DigitVal(x[1]) + DigitVal(x[2])

\* int(h[i:i+2], 16)
HexPair(h, i) == Int16(Slice2(h, i))

ParsesSixDigits(hexc) ==
    LET h == lstrip_hash(hexc)
    IN  Len(h) = 6 /\ \A i \in 1..6 : IsHexChar(h[i])
\* hex_to_rgb (and _color_swatch of cli.py, lines 36-38, which parses the
\* same way) returns without ValueError exactly when the three slices parse
ParsesAsHex(hexc) ==
    LET h == lstrip_hash(hexc)
    IN  \A i \in {1, 3, 5} : IntParses(Slice2(h, i))

hex_to_rgb(hexc) ==
    LET h == lstrip_hash(hexc)
    IN  <<HexPair(h, 1), HexPair(h, 3), HexPair(h, 5)>>

\* f"{v:02x}": lowercase hex, zero-padded to at least two digits
RECURSIVE HexOf(_)
HexOf(v) == IF v < 16 THEN <<HexDigits[v + 1]>>
            ELSE HexOf(v \div 16) \o <<HexDigits[(v % 16) + 1]>>
Fmt02xUpper(v) == <<UpperDigits[(v \div 16) + 1], UpperDigits[(v % 16) + 1]>>
Fmt02x(v) == IF v < 16 THEN <<"0">> \o HexOf(v) ELSE HexOf(v)

\* rgb_to_hex on integer channels (int() of an int is the int itself)
rgb_to_hex(r, g, b) ==
    <<"#">> \o Fmt02x(Max(0, Min(255, r))) \o Fmt02x(Max(0, Min(255, g)))
            \o Fmt02x(Max(0, Min(255, b)))

---------------------------------------------------------------------------
(* RGB <-> HSL (colorsys.rgb_to_hls / hls_to_rgb behind the two wrappers) *)

Max3(t) == Max(t[1], Max(t[2], t[3]))
Min3(t) == Min(t[1], Min(t[2], t[3]))

\* Which of the three doubles rgb_to_hsl returns carry a rounding error:
\* h = 0.0 exactly when r is the maximum and g = b; s is the literal 0.0 for
\* a grey and rangec / rangec = 1.0 when the minimum is 0 or the maximum is
\* 255; l is exact when both extremes are 0 or 255.
HInexact(t) == Max3(t) # Min3(t) /\ ~(t[1] = Max3(t) /\ t[2] = t[3])
SInexact(t) == Max3(t) # Min3(t) /\ Min3(t) # 0 /\ Max3(t) # 255
LInexact(t) == ~({Max3(t), Min3(t)} \subseteq {0, 255})

\* rgb_to_hsl: h in degrees, s and l in percent; eh, es, el are the signs of
\* the rounding errors of the three doubles (rnd where inexact, else 0)
rgb_to_hsl(t, rnd) ==
    LET maxc == Max3(t)
        minc == Min3(t)
        sumc == maxc + minc
        rangec == maxc - minc
        l == QNorm(100 * sumc, 510)
        s == IF sumc <= 255 THEN QNorm(100 * rangec, sumc)
             ELSE QNorm(100 * rangec, 510 - sumc)
        hraw == IF t[1] = maxc THEN QNorm(t[2] - t[3], rangec)
                ELSE IF t[2] = maxc THEN QAdd(Q(2), QNorm(t[3] - t[1], rangec))
                ELSE QAdd(Q(4), QNorm(t[1] - t[2], rangec))
        h == QMod(QMul(Q(60), hraw), Q(360))
    IN  IF minc = maxc
        THEN [h |-> Q(0), s |-> Q(0), l |-> l,
              eh |-> 0, es |-> 0, el |-> IF LInexact(t) THEN rnd.l ELSE 0]
        ELSE [h |-> h, s |-> s, l |-> l,
              eh |-> IF HInexact(t) THEN rnd.h ELSE 0,
              es |-> IF SInexact(t) THEN rnd.s ELSE 0,
              el |-> IF LInexact(t) THEN rnd.l ELSE 0]

\* int(x): truncation toward zero
QTrunc(a) == IF a[1] >= 0 THEN a[1] \div a[2] ELSE -((-a[1]) \div a[2])

\* int(v * 255) for a channel value v computed in doubles: when v * 255 is
\* exactly the integer n >= 1 the double is n or just below it (f = 1)
Chan(v, f) ==
    LET x == QMul(v, Q(255))
    IN  IF QIsInt(x) /\ x[1] >= 1 THEN x[1] - f ELSE QTrunc(x)

\* colorsys._v
HueV(m1, m2, hue0) ==
    LET hue == QMod(hue0, Q(1))
    IN  IF QLt(hue, <<1, 6>>)
        THEN QAdd(m1, QMul(QMul(QSub(m2, m1), hue), Q(6)))
        ELSE IF QLt(hue, <<1, 2>>) THEN m2
        ELSE IF QLt(hue, <<2, 3>>)
        THEN QAdd(m1, QMul(QMul(QSub(m2, m1), QSub(<<2, 3>>, hue)), Q(6)))
        ELSE m1

\* colorsys.hls_to_rgb(h, l, s) on fractions of 1; fp = <<fr, fg, fb>> are
\* the truncation outcomes of the three channels of int(c * 255).  With
\* s = 0 the three channels are one double, l * 255, exact for l at 0 or 1.
hls_to_rgb255(hh, ll, ss, fp) ==
    LET m2 == IF QLe(ll, <<1, 2>>) THEN QMul(ll, QAdd(Q(1), ss))
              ELSE QSub(QAdd(ll, ss), QMul(ll, ss))
        m1 == QSub(QMul(Q(2), ll), m2)
    IN  IF ss = Q(0)
        THEN IF ll = Q(0) \/ ll = Q(1)
             THEN <<Chan(ll, 0), Chan(ll, 0), Chan(ll, 0)>>
             ELSE <<Chan(ll, fp[1]), Chan(ll, fp[1]), Chan(ll, fp[1])>>
        ELSE <<Chan(HueV(m1, m2, QAdd(hh, <<1, 3>>)), fp[1]),
               Chan(HueV(m1, m2, hh), fp[2]),
               Chan(HueV(m1, m2, QSub(hh, <<1, 3>>)), fp[3])>>

\* colorsys.hls_to_rgb(h, l, s) on fractions of 1, as exact values
hls_to_rgb(hh, ll, ss) ==
    LET m2 == IF QLe(ll, <<1, 2>>) THEN QMul(ll, QAdd(Q(1), ss))
              ELSE QSub(QAdd(ll, ss), QMul(ll, ss))
        m1 == QSub(QMul(Q(2), ll), m2)
    IN  IF ss = Q(0) THEN <<ll, ll, ll>>
        ELSE <<HueV(m1, m2, QAdd(hh, <<1, 3>>)), HueV(m1, m2, hh),
               HueV(m1, m2, QSub(hh, <<1, 3>>))>>

hsl_to_rgb_swapped(h, s, l, fp) ==
    hls_to_rgb255(QDiv(h, Q(360)), QDiv(s, Q(100)), QDiv(l, Q(100)), fp)
\* hsl_to_rgb(h, s, l): h in degrees, s and l in percent
hsl_to_rgb(h, s, l, fp) ==
    hls_to_rgb255(QDiv(h, Q(360)), QDiv(l, Q(100)), QDiv(s, Q(100)), fp)

hsl_to_hex(h, s, l, fp) ==
    LET c == hsl_to_rgb(h, s, l, fp) IN rgb_to_hex(c[1], c[2], c[3])

hex_to_hsl(hexc, rnd) == rgb_to_hsl(hex_to_rgb(hexc), rnd)

NoRnd == [h |-> 0, s |-> 0, l |-> 0, sc |-> 0]

---------------------------------------------------------------------------
(* Adjustments *)

\* lighten(hexc, amount): amount is a rational
lighten(hexc, amount, fp) ==
    LET x == hex_to_hsl(hexc, NoRnd)
    IN  hsl_to_hex(x.h, x.s, QMin(Q(100), QAdd(x.l, amount)), fp)

\* darken(hexc, amount)
darken(hexc, amount, fp) ==
    LET x == hex_to_hsl(hexc, NoRnd)
    IN  hsl_to_hex(x.h, x.s, QMax(Q(0), QSub(x.l, amount)), fp)

\* saturate(hexc, amount)
saturate(hexc, amount, fp) ==
    LET x == hex_to_hsl(hexc, NoRnd)
    IN  hsl_to_hex(x.h, QMin(Q(100), QAdd(x.s, amount)), x.l, fp)

\* desaturate(hexc, amount)
desaturate(hexc, amount, fp) ==
    LET x == hex_to_hsl(hexc, NoRnd)
    IN  hsl_to_hex(x.h, QMax(Q(0), QSub(x.s, amount)), x.l, fp)

---------------------------------------------------------------------------
(* Palette derivation *)

NormalizeAccentNoCap(x) ==
    LET low == FCmp(x.l, x.el, Q(25), 0) < 0
    IN  [ah |-> x.h, a_s |-> IF FCmp(x.s, x.es, Q(40), 0) < 0 THEN Q(60) ELSE x.s,
         al |-> IF low THEN Q(40) ELSE x.l,
         es |-> IF FCmp(x.s, x.es, Q(40), 0) < 0 THEN 0 ELSE x.es,
         el |-> IF low THEN 0 ELSE x.el]
\* Lines 166-174: the accent's HSL with the legibility fixes applied; es and
\* el are the rounding signs of a_s and al
NormalizeAccent(x) ==
    LET a_s == IF FCmp(x.s, x.es, Q(40), 0) < 0 THEN Q(60) ELSE x.s
        al1 == IF FCmp(x.l, x.el, Q(25), 0) < 0 THEN Q(40) ELSE x.l
        e1  == IF FCmp(x.l, x.el, Q(25), 0) < 0 THEN 0 ELSE x.el
        al  == IF FCmp(al1, e1, Q(65), 0) > 0 THEN Q(50) ELSE al1
        e2  == IF FCmp(al1, e1, Q(65), 0) > 0 THEN 0 ELSE e1
    IN  [ah |-> x.h, a_s |-> a_s, al |-> al,
         es |-> IF FCmp(x.s, x.es, Q(40), 0) < 0 THEN 0 ELSE x.es, el |-> e2]

MagentaHueClosedAt60(x) ==
    IF FCmp(x.h, x.eh, Q(60), 0) <= 0 \/ FCmp(x.h, x.eh, Q(300), 0) >= 0
    THEN Q(320)
    ELSE QMod(QAdd(x.h, Q(180)), Q(360))
\* Line 200
MagentaHue(x) ==
    IF FCmp(x.h, x.eh, Q(60), 0) < 0 \/ FCmp(x.h, x.eh, Q(300), 0) >= 0
    THEN Q(320)
    ELSE QMod(QAdd(x.h, Q(180)), Q(360))

\* max(floor, a_s * a / b)
Scaled(n, a, b, floor) == QMax(Q(floor), QMul(n.a_s, <<a, b>>))

\* Lines 175-233: the (h, s, l) from which each role that is computed from
\* the normalised accent n (or from constants) is converted; x is the
\* accent's HSL as read
RoleHsl(k, x, n) ==
    CASE k = "accent"        -> <<n.ah, n.a_s, n.al>>
      [] k = "bg_deepest"    -> <<n.ah, Scaled(n, 1, 20, 3), Q(3)>>
      [] k = "bg_main"       -> <<n.ah, Scaled(n, 2, 25, 5), <<11, 2>>>>
      [] k = "bg_surface"    -> <<n.ah, Scaled(n, 3, 25, 8), <<17, 2>>>>
      [] k = "bg_elevated"   -> <<n.ah, Scaled(n, 3, 20, 12), Q(12)>>
      [] k = "border"        -> <<n.ah, Scaled(n, 1, 5, 15), Q(17)>>
      [] k = "border_bright" -> <<n.ah, Scaled(n, 1, 5, 15), Q(22)>>
      [] k = "accent_hover"  -> <<n.ah, QMin(Q(100), QAdd(n.a_s, Q(5))),
                                  QMin(Q(65), QAdd(n.al, Q(8)))>>
      [] k = "accent_light"  -> <<n.ah, QMin(Q(100), QAdd(n.a_s, Q(10))),
                                  QMin(Q(70), QAdd(n.al, Q(12)))>>
      [] k = "accent_soft"   -> <<QMod(QAdd(n.ah, Q(15)), Q(360)),
                                  Scaled(n, 3, 5, 30), n.al>>
      [] k = "accent_rose"   -> <<n.ah, Scaled(n, 7, 10, 40),
                                  QMin(Q(75), QAdd(n.al, Q(20)))>>
      [] k = "text"          -> <<n.ah, Scaled(n, 3, 50, 3), Q(90)>>
      [] k = "text_muted"    -> <<n.ah, Scaled(n, 2, 25, 4), Q(63)>>
      [] k = "text_dim"      -> <<n.ah, Scaled(n, 1, 10, 5), Q(38)>>
      [] k = "green"         -> <<Q(130), Q(50), Q(46)>>
      [] k = "blue"          -> <<Q(228), Q(40), Q(55)>>
      [] k = "magenta"       -> <<MagentaHue(x),
                                  QMin(Q(60), Scaled(n, 4, 5, 40)), Q(50)>>
      [] k = "cyan"          -> <<Q(175), Q(40), Q(48)>>
      [] k = "insensitive_bg" -> <<n.ah, Scaled(n, 3, 50, 5), Q(7)>>
      [] k = "warning"       -> <<Q(35), Q(70), Q(58)>>
      [] k = "ansi_black"    -> <<n.ah, Scaled(n, 1, 20, 3), Q(5)>>
      [] k = "ansi_yellow"   -> <<QMod(QAdd(n.ah, Q(8)), Q(360)),
                                  QMin(Q(80), n.a_s),
                                  QMin(Q(55), QAdd(n.al, Q(5)))>>
      [] k = "deep_maroon"   -> <<n.ah, Scaled(n, 1, 2, 30), Q(20)>>
ComputedRoles == {
    "accent", "bg_deepest", "bg_main", "bg_surface", "bg_elevated", "border",
    "border_bright", "accent_hover", "accent_light", "accent_soft",
    "accent_rose", "text", "text_muted", "text_dim", "green", "blue",
    "magenta", "cyan", "insensitive_bg", "warning", "ansi_black",
    "ansi_yellow", "deep_maroon"}

\* Lines 225-230: the bright ANSI slots that are lighten(role, amount)
LightenedFrom ==
    [ansi_bright_green |-> <<"green", 8>>, ansi_bright_blue |-> <<"blue", 10>>,
     ansi_bright_magenta |-> <<"magenta", 12>>,
     ansi_bright_cyan |-> <<"cyan", 10>>, ansi_bright_white |-> <<"text", 3>>]

AliasOfSwapped ==
    [insensitive_fg |-> "text_dim", ansi_red |-> "accent",
     ansi_green |-> "blue", ansi_blue |-> "green", ansi_magenta |-> "magenta",
     ansi_cyan |-> "cyan", ansi_white |-> "text_muted",
     ansi_bright_black |-> "border", ansi_bright_red |-> "accent_light",
     ansi_bright_yellow |-> "accent_rose"]
\* Lines 206-226, 259-274: the entries that are another role's value
AliasOf ==
    [insensitive_fg |-> "text_dim", ansi_red |-> "accent",
     ansi_green |-> "green", ansi_blue |-> "blue", ansi_magenta |-> "magenta",
     ansi_cyan |-> "cyan", ansi_white |-> "text_muted",
     ansi_bright_black |-> "border", ansi_bright_red |-> "accent_light",
     ansi_bright_yellow |-> "accent_rose"]

\* Lines 235-275: the keys of the returned dict
DictKeys == (({"wallpaper"} \cup ComputedRoles) \cup DOMAIN LightenedFrom)
               \cup DOMAIN AliasOf

hsl3_to_hex(t, fp) == hsl_to_hex(t[1], t[2], t[3], fp)

PaletteDictPathSensitive(computed, path, fp) ==
    [k \in DictKeys |->
        IF k = "wallpaper" THEN path
        ELSE IF k = "bg_main" /\ path = "" THEN computed["bg_deepest"]
        ELSE IF k \in ComputedRoles THEN computed[k]
        ELSE IF k \in DOMAIN AliasOf THEN computed[AliasOf[k]]
        ELSE lighten(computed[LightenedFrom[k][1]], Q(LightenedFrom[k][2]), fp)]
\* The dict assembled from the computed roles
PaletteDict(computed, path, fp) ==
    [k \in DictKeys |->
        IF k = "wallpaper" THEN path
        ELSE IF k \in ComputedRoles THEN computed[k]
        ELSE IF k \in DOMAIN AliasOf THEN computed[AliasOf[k]]
        ELSE lighten(computed[LightenedFrom[k][1]], Q(LightenedFrom[k][2]), fp)]

PaletteFrom(x, n, path, fp) ==
    PaletteDict([k \in ComputedRoles |-> hsl3_to_hex(RoleHsl(k, x, n), fp)],
                path, fp)

\* generate_palette(accent_hex, wallpaper_path); rnd are the rounding signs
\* of the accent's HSL, fp the truncation outcomes of the three channels (one
\* triple stands for the outcomes of all the conversions of the call)
generate_palette(hexc, path, rnd, fp) ==
    PaletteFrom(hex_to_hsl(hexc, rnd), NormalizeAccent(hex_to_hsl(hexc, rnd)),
                path, fp)

---------------------------------------------------------------------------
(* GNOME accent name *)

GnomeNameOfClosedAbove(x) ==
    LET hle(v) == FCmp(x.h, x.eh, Q(v), 0) <= 0
    IN  IF FCmp(x.s, x.es, Q(15), 0) < 0 THEN "slate"
        ELSE IF hle(15) \/ ~hle(345) THEN "red"
        ELSE IF hle(40) THEN "orange"
        ELSE IF hle(70) THEN "yellow"
        ELSE IF hle(160) THEN "green"
        ELSE IF hle(195) THEN "teal"
        ELSE IF hle(260) THEN "blue"
        ELSE IF hle(300) THEN "purple"
        ELSE "pink"
GnomeNameOfSlateAt15(x) ==
    LET hlt(v) == FCmp(x.h, x.eh, Q(v), 0) < 0
    IN  IF FCmp(x.s, x.es, Q(15), 0) <= 0 THEN "slate"
        ELSE IF hlt(15) \/ ~hlt(345) THEN "red"
        ELSE IF hlt(40) THEN "orange"
        ELSE IF hlt(70) THEN "yellow"
        ELSE IF hlt(160) THEN "green"
        ELSE IF hlt(195) THEN "teal"
        ELSE IF hlt(260) THEN "blue"
        ELSE IF hlt(300) THEN "purple"
        ELSE "pink"
\* Lines 282-298 on the HSL of the accent
GnomeNameOf(x) ==
    LET hlt(v) == FCmp(x.h, x.eh, Q(v), 0) < 0
    IN  IF FCmp(x.s, x.es, Q(15), 0) < 0 THEN "slate"
        ELSE IF hlt(15) \/ ~hlt(345) THEN "red"
        ELSE IF ~hlt(15) /\ hlt(40) THEN "orange"
        ELSE IF ~hlt(40) /\ hlt(70) THEN "yellow"
        ELSE IF ~hlt(70) /\ hlt(160) THEN "green"
        ELSE IF ~hlt(160) /\ hlt(195) THEN "teal"
        ELSE IF ~hlt(195) /\ hlt(260) THEN "blue"
        ELSE IF ~hlt(260) /\ hlt(300) THEN "purple"
        ELSE "pink"

get_gnome_accent_name(hexc, rnd) == GnomeNameOf(hex_to_hsl(hexc, rnd))

---------------------------------------------------------------------------
(* Accent selection *)

\* Code points of the characters of a colour string
CharCode(c) ==
    IF c = "#" THEN 35
    ELSE IF \E i \in 1..10 : HexDigits[i] = c
         THEN 47 + (CHOOSE i \in 1..10 : HexDigits[i] = c)
    ELSE IF \E i \in 11..16 : HexDigits[i] = c
         THEN 86 + (CHOOSE i \in 11..16 : HexDigits[i] = c)
    ELSE 54 + (CHOOSE i \in 11..16 : UpperDigits[i] = c)

\* Python's str comparison: -1, 0, 1
RECURSIVE StrCmp(_, _)
StrCmp(a, b) ==
    IF a = <<>> THEN (IF b = <<>> THEN 0 ELSE -1)
    ELSE IF b = <<>> THEN 1
    ELSE IF CharCode(Head(a)) < CharCode(Head(b)) THEN -1
    ELSE IF CharCode(Head(a)) > CharCode(Head(b)) THEN 1
    ELSE StrCmp(Tail(a), Tail(b))

LightScoreOpenAt60(x) ==
    IF FCmp(x.l, x.el, Q(15), 0) < 0 \/ FCmp(x.l, x.el, Q(85), 0) > 0
    THEN <<1, 10>>
    ELSE IF FCmp(x.l, x.el, Q(25), 0) >= 0 /\ FCmp(x.l, x.el, Q(60), 0) < 0
    THEN Q(1)
    ELSE <<1, 2>>
\* Lines 141-146
LightScore(x) ==
    IF FCmp(x.l, x.el, Q(15), 0) < 0 \/ FCmp(x.l, x.el, Q(85), 0) > 0
    THEN <<1, 10>>
    ELSE IF FCmp(x.l, x.el, Q(25), 0) >= 0 /\ FCmp(x.l, x.el, Q(60), 0) <= 0
    THEN Q(1)
    ELSE <<1, 2>>

\* Line 149
GreyPenalty(x) == IF FCmp(x.s, x.es, Q(20), 0) > 0 THEN Q(1) ELSE <<1, 10>>

\* score_accent(hexc): the double sat_score * light_score * grey_penalty,
\* as its exact value q and the sign e of its rounding error (rnd.sc unless
\* s, and with it the product, is computed exactly)
score_accent(hexc, rnd) ==
    LET t == hex_to_rgb(hexc)
        x == rgb_to_hsl(t, rnd)
    IN  [q |-> QMul(QMul(QDiv(x.s, Q(100)), LightScore(x)), GreyPenalty(x)),
         e |-> IF SInexact(t) THEN rnd.sc ELSE 0]

\* Order of two (score, colour) tuples: by score, then by the string
TupleCmp(a, b) ==
    LET c == FCmp(a[1].q, a[1].e, b[1].q, b[1].e)
    IN  IF c # 0 THEN c ELSE StrCmp(a[2], b[2])

\* list.sort(reverse=True): descending, equal elements keep their order
RECURSIVE InsertDesc(_, _)
InsertDesc(sorted, x) ==
    IF sorted = <<>> THEN <<x>>
    ELSE IF TupleCmp(x, Head(sorted)) > 0 THEN <<x>> \o sorted
    ELSE <<Head(sorted)>> \o InsertDesc(Tail(sorted), x)
RECURSIVE SortDesc(_)
SortDesc(seq) ==
    IF seq = <<>> THEN <<>>
    ELSE InsertDesc(SortDesc(SubSeq(seq, 1, Len(seq) - 1)), seq[Len(seq)])

FallbackAccentWhite == <<"#", "f", "f", "f", "f", "f", "f">>
\* Line 157
FallbackAccent == <<"#", "c", "4", "1", "e", "3", "a">>

\* Line 159-160: the sorted list of (score, colour); rnds[i] are the
\* rounding signs of colors[i]
Scored(cs, rnds) ==
    SortDesc([i \in 1..Len(cs) |-> <<score_accent(cs[i], rnds[i]), cs[i]>>])

\* pick_accent(colors), given its sorted list
Pick(cs, sortedList) == IF cs = <<>> THEN FallbackAccent ELSE sortedList[1][2]

---------------------------------------------------------------------------
(* k-means extraction.  A pixel is <<r, g, b>>, a centroid three rationals.
   The samples below have channels that are multiples of 15 and at most 6
   pixels, so every mean is a fraction with denominator 1, 2 or 4 and every
   double the code computes from them is exact. *)

QAbs(a) == <<Abs(a[1]), a[2]>>

\* F(v), with v computed once
Once(F(_), v) == CHOOSE r \in {F(x) : x \in {v}} : TRUE

\* np.linspace(0, n - 1, k, dtype=int), as 1-based positions.  For the k
\* used here (k - 1 <= 4) the doubles i * step are exact wherever they are
\* integers.
Linspace(n, k) ==
    [i \in 1..k |-> IF k = 1 THEN 1
                    ELSE 1 + QFloor(QDiv(Q((i - 1) * (n - 1)), Q(k - 1)))]

\* np.sum((pixel - c) ** 2)
Dist2(p, c) ==
    LET d(i) == QSub(Q(p[i]), c[i])
    IN  QAdd(QAdd(QMul(d(1), d(1)), QMul(d(2), d(2))), QMul(d(3), d(3)))

Farthest(d) ==
    CHOOSE j \in 1..Len(d) :
        \A m \in 1..Len(d) : QLe(d[m], d[j]) /\ (m < j => QLt(d[m], d[j]))
\* np.argmin(dists, axis=0): the first centroid at minimum distance
Nearest(d) ==
    CHOOSE j \in 1..Len(d) :
        \A m \in 1..Len(d) : QLe(d[j], d[m]) /\ (m < j => QLt(d[j], d[m]))
Labels(pixels, cents) ==
    [i \in 1..Len(pixels) |->
        Once(Nearest, [j \in 1..Len(cents) |-> Dist2(pixels[i], cents[j])])]

RECURSIVE SumOver(_, _, _)
SumOver(pixels, idx, ch) ==
    IF idx = {} THEN 0
    ELSE LET i == CHOOSE x \in idx : TRUE
         IN  pixels[i][ch] + SumOver(pixels, idx \ {i}, ch)

\* pixels[mask].astype(float).mean(axis=0)
Mean(pixels, idx) ==
    [ch \in 1..3 |-> QDiv(Q(SumOver(pixels, idx, ch)), Q(Cardinality(idx)))]

NewCentroidsZeroed(pixels, cents, labels) ==
    [j \in 1..Len(cents) |->
        IF \E i \in 1..Len(pixels) : labels[i] = j
        THEN Mean(pixels, {i \in 1..Len(pixels) : labels[i] = j})
        ELSE [ch \in 1..3 |-> Q(0)]]
\* Lines 89-95: a centroid without pixels keeps its value
NewCentroids(pixels, cents, labels) ==
    [j \in 1..Len(cents) |->
        IF \E i \in 1..Len(pixels) : labels[i] = j
        THEN Mean(pixels, {i \in 1..Len(pixels) : labels[i] = j})
        ELSE cents[j]]

\* np.allclose(a, b, atol=1): |a - b| <= atol + rtol * |b| everywhere, with
\* numpy's default rtol of 1e-05
Rtol == <<1, 100000>>
AllClose(a, b) ==
    \A j \in 1..Len(a) : \A ch \in 1..3 :
        QLe(QAbs(QSub(a[j][ch], b[j][ch])),
            QAdd(Q(1), QMul(Rtol, QAbs(b[j][ch]))))

\* Lines 81-99: the loop; returns the centroids it ends with and the number
\* of assign/recompute rounds it ran
RECURSIVE Iterate(_, _, _, _)
Iterate(pixels, cents, left, done) ==
    IF left = 0 THEN [c |-> cents, rounds |-> done]
    ELSE Once(LAMBDA new : IF AllClose(cents, new)
                           THEN [c |-> cents, rounds |-> done + 1]
                           ELSE Iterate(pixels, new, left - 1, done + 1),
              NewCentroids(pixels, cents, Labels(pixels, cents)))

\* Lines 101-107: the centroid indices ordered by counts.sort(reverse=True)
\* on the (count, j) tuples
Ranked(counts) ==
    LET k == Len(counts)
        before(a, b) == counts[a] > counts[b] \/ (counts[a] = counts[b] /\ a > b)
    IN  [pos \in 1..k |->
            CHOOSE j \in 1..k : Cardinality({m \in 1..k : before(m, j)}) = pos - 1]

CountsOf(labels, k) ==
    [j \in 1..k |-> Cardinality({i \in 1..Len(labels) : labels[i] = j})]
Counts(pixels, cents) ==
    Once(LAMBDA labels : CountsOf(labels, Len(cents)), Labels(pixels, cents))

ReturnedNonEmpty(fin, counts, order) ==
    [c |-> fin.c, rounds |-> fin.rounds, counts |-> counts, order |-> order,
     out |-> [pos \in 1..Len(SelectSeq(order, LAMBDA j : counts[j] > 0)) |->
                 [ch \in 1..3 |->
                     QTrunc(fin.c[SelectSeq(order, LAMBDA j : counts[j] > 0)[pos]][ch])]]]
\* Line 109: the record of what the call computed (final centroids, rounds,
\* counts, order) and returned (out)
Returned(fin, counts, order) ==
    [c |-> fin.c, rounds |-> fin.rounds, counts |-> counts, order |-> order,
     out |-> [pos \in 1..Len(order) |->
                 [ch \in 1..3 |-> QTrunc(fin.c[order[pos]][ch])]]]
\* kmeans_colors(pixels, k, max_iter)
kmeans_colors(pixels, k, max_iter) ==
    IF Len(pixels) = 0
    THEN [c |-> <<>>, rounds |-> 0, counts |-> <<>>, order |-> <<>>, out |-> <<>>]
    ELSE Once(LAMBDA fin :
                Once(LAMBDA counts : Returned(fin, counts, Ranked(counts)),
                     Counts(pixels, fin.c)),
              Iterate(pixels,
                      [j \in 1..k |->
                          [ch \in 1..3 |-> Q(pixels[Linspace(Len(pixels), k)[j]][ch])]],
                      max_iter, 0))

\* Line 123-124: the pixels that are neither very dark nor very bright
Mask(image) ==
    {i \in 1..Len(image) :
        LET brightness == image[i][1] + image[i][2] + image[i][3]
        IN  brightness > 60 /\ brightness < 700}
RECURSIVE Select(_, _, _)
Select(image, mask, i) ==
    IF i > Len(image) THEN <<>>
    ELSE (IF i \in mask THEN <<image[i]>> ELSE <<>>) \o Select(image, mask, i + 1)
\* Line 125, with the code's 1000 (of the 40000 pixels of the resized
\* image) scaled to "least"
Filtered(image, least) ==
    IF Cardinality(Mask(image)) > least THEN Select(image, Mask(image), 1)
    ELSE image

\* numpy's global generator: as seeded by the interpreter ("entropy"),
\* just after np.random.seed(42) ("seed42"), or after draws ("drawn")
RngStates == {"entropy", "seed42", "drawn"}
NoSeed(state) == state
\* Line 128: np.random.seed(42)
Seed42(state) == "seed42"
\* The permutation np.random.shuffle applies to n rows just after
\* np.random.seed(42) (MT19937, Fisher-Yates from the last row down):
\* row i of the result is row Seed42Perm[n][i] of the argument
Seed42Perm ==
    <<  <<1>>, <<2, 1>>, <<1, 2, 3>>, <<2, 4, 1, 3>>, <<2, 5, 3, 1, 4>>,
        <<1, 2, 6, 3, 5, 4>>  >>
RowPermutations(n) ==
    {f \in [1..n -> 1..n] : \A i, j \in 1..n : f[i] = f[j] => i = j}
\* Line 129: the permutations np.random.shuffle can apply in a generator
\* state; any one in a state other than "seed42"
ShufflePerms(state, n) ==
    IF state = "seed42" THEN {Seed42Perm[n]} ELSE RowPermutations(n)

\* Lines 70 and 112: the default arguments
DefaultK == 8
DefaultMaxIter == 20

\* Line 131
HexList(cents) ==
    [j \in 1..Len(cents) |-> rgb_to_hex(cents[j][1], cents[j][2], cents[j][3])]

---------------------------------------------------------------------------
(* Inputs *)

\* Colours the calls are given: a coarse lattice of the RGB cube ...
Lattice == {<<r, g, b>> : r \in {0, 85, 170, 255}, g \in {0, 85, 170, 255},
                         b \in {0, 85, 170, 255}}
\* ... and the colours at which the code's thresholds lie
Special == {
    <<128, 128, 128>>, <<196, 30, 58>>,
    <<23, 17, 17>>, <<30, 22, 22>>, <<22, 17, 17>>,      \* s = 15, above, below
    <<70, 30, 30>>, <<69, 30, 30>>, <<71, 30, 30>>,      \* s = 40, below, above
    <<60, 30, 30>>, <<200, 150, 150>>, <<1, 0, 0>>,      \* l < 25, l > 65
    <<200, 50, 0>>, <<200, 49, 0>>,                      \* h = 15, below
    <<150, 100, 0>>, <<150, 99, 0>>,                     \* h = 40, below
    <<200, 200, 0>>, <<200, 199, 0>>,                    \* h = 60, below
    <<100, 120, 0>>, <<101, 120, 0>>,                    \* h = 70, below
    <<0, 150, 100>>, <<0, 150, 99>>,                     \* h = 160, below
    <<0, 150, 200>>, <<0, 151, 200>>,                    \* h = 195, below
    <<50, 0, 150>>, <<49, 0, 150>>,                      \* h = 260, below
    <<200, 0, 200>>, <<199, 0, 200>>,                    \* h = 300, below
    <<200, 0, 50>>, <<200, 0, 51>>,                      \* h = 345, below
    <<15, 0, 0>>, <<3, 2, 1>>, <<254, 253, 255>> }
Colours == Lattice \cup Special

\* Accent strings: "#rrggbb" of every colour, and the other spellings
\* hex_to_rgb accepts (upper case, no "#")
UpperOf(c) == IF \E i \in 1..16 : HexDigits[i] = c
              THEN UpperDigits[CHOOSE i \in 1..16 : HexDigits[i] = c] ELSE c
Upper(h) == [i \in 1..Len(h) |-> UpperOf(h[i])]
Spellings(h) == {h, Tail(h), Upper(h), Tail(Upper(h))}
AccentHexes ==
    {rgb_to_hex(t[1], t[2], t[3]) : t \in Colours}
    \cup Spellings(rgb_to_hex(196, 30, 58)) \cup Spellings(rgb_to_hex(0, 170, 255))

Paths == {"", "/home/user/wall.png"}

Bits == {0, 1}

\* The values the code compares s, l and h against
SThresholds == {15, 20, 40}
LThresholds == {15, 25, 60, 65, 85}
HThresholds == {15, 40, 60, 70, 160, 195, 260, 300, 345}

\* The rounding signs a colour's HSL doubles can have.  A sign is observable
\* only where the exact value sits on a threshold, so it is drawn only there.
SignsAt(q, inexact, thresholds) ==
    IF inexact /\ QIsInt(q) /\ q[1] \in thresholds THEN Signs ELSE {0}
HslRoundings(t) ==
    LET x == rgb_to_hsl(t, NoRnd)
    IN  {[h |-> eh, s |-> es, l |-> el, sc |-> 0] :
            eh \in SignsAt(x.h, HInexact(t), HThresholds),
            es \in SignsAt(x.s, SInexact(t), SThresholds),
            el \in SignsAt(x.l, LInexact(t), LThresholds)}

\* Colours offered to pick_accent: grey, the fallback, black, white, two
\* fully saturated colours, a pale one, colours with s at and next to 20
\* (light and dark), and colours with l at 60 and in the middle tier
ListColours == {
    <<128, 128, 128>>, <<196, 30, 58>>, <<0, 0, 0>>, <<255, 255, 255>>,
    <<255, 0, 0>>, <<0, 255, 0>>, <<255, 200, 200>>,
    <<84, 56, 56>>, <<33, 22, 22>>, <<37, 24, 24>>,
    <<204, 102, 102>>, <<60, 30, 30>> }
ListHexes == {rgb_to_hex(t[1], t[2], t[3]) : t \in ListColours}

\* Longest list given to pick_accent
MaxColors == 2
RECURSIVE SeqsUpTo(_, _)
SeqsUpTo(S, n) ==
    IF n = 0 THEN {<<>>}
    ELSE LET shorter == SeqsUpTo(S, n - 1)
         IN  shorter \cup {Append(q, x) : q \in {r \in shorter : Len(r) = n - 1},
                                          x \in S}

\* The rounding signs of one colour's s, l and score
ScoreRoundings(hexc) ==
    LET t == hex_to_rgb(hexc)
        x == rgb_to_hsl(t, NoRnd)
    IN  {[h |-> 0, s |-> es, l |-> el, sc |-> esc] :
            es \in SignsAt(x.s, SInexact(t), SThresholds),
            el \in SignsAt(x.l, LInexact(t), LThresholds),
            esc \in IF SInexact(t) THEN Signs ELSE {0}}
\* ... and of a list of colours: the same colour rounds the same way
RECURSIVE ListRoundings(_)
ListRoundings(cs) ==
    IF cs = <<>> THEN {<<>>}
    ELSE UNION {{<<r>> \o q : q \in {p \in ListRoundings(Tail(cs)) :
                                       \A i \in 1..Len(p) :
                                          cs[i + 1] = Head(cs) => p[i] = r}} :
                r \in ScoreRoundings(Head(cs))}

---------------------------------------------------------------------------
(* State machines: the initial state draws the inputs, and a behaviour is
   one call of one function, a chain of calls as cli.py makes them, or
   repeated calls of extract_colors *)

Blank ==
    /\ rgb_out = <<>>
    /\ norm = <<>>
    /\ palette = <<>>
    /\ palette_other = <<>>
    /\ gnome_name = ""
    /\ hsl_seen = <<>>
    /\ scored = <<>>
    /\ picked = <<>>
    /\ kmeans = <<>>
    /\ results = <<>>
    /\ rng = "entropy"
    /\ rng_at_call = <<>>
    /\ filtered_out = <<>>
    /\ theme_name = ""
    /\ prompts = <<>>
    /\ events = <<>>
    /\ exit_code = "running"
    /\ adjusted = <<>>
    /\ all_log = <<>>
    /\ ran = <<>>

\* No command line at hand
NoCli ==
    /\ args = <<>>
    /\ files = {}
    /\ detected = ""

\* No sample at hand
NoPixels ==
    /\ pixels_in = <<>>
    /\ k_in = DefaultK
    /\ max_iter_in = DefaultMaxIter

\* No apply_theme call at hand
NoApply ==
    /\ skip = <<>>
    /\ step = 0

\* No adjustment at hand
NoAdjust ==
    /\ hsl_in = <<>>
    /\ hexc_in = <<>>
    /\ amount_in = <<>>

\* No colour at hand
NoColour ==
    /\ accent_hex = <<>>
    /\ rgb_in = <<>>
    /\ wallpaper_path = ""
    /\ truncation = <<0, 0, 0>>

\* A colour, one spelling of it as a hex string, and the roundings of the run
Init ==
    /\ Blank
    /\ NoApply
    /\ NoAdjust
    /\ NoCli
    /\ NoPixels
    /\ pc = "idle"
    /\ accent_hex \in AccentHexes
    /\ rgb_in = hex_to_rgb(accent_hex)
    /\ wallpaper_path = ""
    /\ rounding \in HslRoundings(rgb_in)
    /\ truncation \in Bits \X Bits \X Bits
    /\ colors = <<>>

\* hsl_to_rgb(*rgb_to_hsl(r, g, b))
RoundTrip ==
    /\ pc = "idle"
    /\ hsl_seen' = rgb_to_hsl(rgb_in, rounding)
    /\ rgb_out' = hsl_to_rgb(hsl_seen'.h, hsl_seen'.s, hsl_seen'.l, truncation)
    /\ pc' = "round_trip"
    /\ UNCHANGED <<cliVars, adjustVars, applyVars>>
    /\ UNCHANGED <<rgb_in, accent_hex, wallpaper_path, rounding, truncation, norm, palette,
                   palette_other,
                   gnome_name, accentVars, kmeansVars>>

\* get_gnome_accent_name(accent_hex)
GnomeAccentName ==
    /\ pc = "idle"
    /\ hsl_seen' = hex_to_hsl(accent_hex, rounding)
    /\ gnome_name' = get_gnome_accent_name(accent_hex, rounding)
    /\ pc' = "get_gnome_accent_name"
    /\ UNCHANGED <<cliVars, adjustVars, applyVars>>
    /\ UNCHANGED <<rgb_in, accent_hex, wallpaper_path, rounding, truncation, rgb_out, norm,
                   palette, palette_other, accentVars, kmeansVars>>

\* Colour math and accent naming
Next == RoundTrip \/ GnomeAccentName
Spec == Init /\ [][Next]_vars

\* Arguments for hsl_to_rgb and for the four adjustments
HslInputs ==
    {<<Q(h), Q(s), Q(l)>> : h \in {0, 35, 210}, s \in {0, 70, 100},
                            l \in {0, 50, 58, 100}}
AdjustColours == {
    <<"#", "c", "4", "1", "e", "3", "a">>, <<"#", "8", "0", "8", "0", "8", "0">>,
    <<"#", "f", "f", "0", "0", "0", "0">>, <<"#", "3", "3", "6", "6", "9", "9">> }
Amounts == {Q(-150), Q(-30), Q(0), Q(30), Q(150)}

InitAdjust ==
    /\ Blank
    /\ NoApply
    /\ NoCli
    /\ NoPixels
    /\ pc = "idle"
    /\ accent_hex = <<>>
    /\ rgb_in = <<>>
    /\ wallpaper_path = ""
    /\ colors = <<>>
    /\ rounding = NoRnd
    /\ truncation \in Bits \X Bits \X Bits
    /\ hsl_in \in HslInputs
    /\ hexc_in \in AdjustColours
    /\ amount_in \in Amounts

\* What a colour-math call leaves alone
AdjustFrame ==
    UNCHANGED <<rgb_in, accent_hex, wallpaper_path, rounding, truncation, hsl_seen, norm,
                palette, palette_other, gnome_name, accentVars, kmeansVars, cliVars,
                hsl_in, hexc_in, amount_in, applyVars>>

\* hsl_to_rgb(h, s, l)
HslToRgb ==
    /\ pc = "idle"
    /\ rgb_out' = hsl_to_rgb(hsl_in[1], hsl_in[2], hsl_in[3], truncation)
    /\ pc' = "hsl_to_rgb"
    /\ UNCHANGED adjusted
    /\ AdjustFrame

\* lighten(hexc, amount)
Lighten ==
    /\ pc = "idle"
    /\ adjusted' = lighten(hexc_in, amount_in, truncation)
    /\ pc' = "lighten"
    /\ UNCHANGED rgb_out
    /\ AdjustFrame

\* darken(hexc, amount)
Darken ==
    /\ pc = "idle"
    /\ adjusted' = darken(hexc_in, amount_in, truncation)
    /\ pc' = "darken"
    /\ UNCHANGED rgb_out
    /\ AdjustFrame

\* saturate(hexc, amount)
Saturate ==
    /\ pc = "idle"
    /\ adjusted' = saturate(hexc_in, amount_in, truncation)
    /\ pc' = "saturate"
    /\ UNCHANGED rgb_out
    /\ AdjustFrame

\* desaturate(hexc, amount)
Desaturate ==
    /\ pc = "idle"
    /\ adjusted' = desaturate(hexc_in, amount_in, truncation)
    /\ pc' = "desaturate"
    /\ UNCHANGED rgb_out
    /\ AdjustFrame

\* One call of a conversion or of an adjustment
NextAdjust == HslToRgb \/ Lighten \/ Darken \/ Saturate \/ Desaturate
SpecAdjust == InitAdjust /\ [][NextAdjust]_vars

InitPalette ==
    /\ Blank
    /\ NoApply
    /\ NoAdjust
    /\ NoCli
    /\ NoPixels
    /\ pc = "idle"
    /\ accent_hex \in AccentHexes
    /\ rgb_in = hex_to_rgb(accent_hex)
    /\ wallpaper_path \in Paths
    /\ rounding \in HslRoundings(rgb_in)
    /\ truncation \in Bits \X Bits \X Bits
    /\ colors = <<>>

\* generate_palette(accent_hex, wallpaper_path)
GeneratePalette ==
    /\ pc = "idle"
    /\ hsl_seen' = hex_to_hsl(accent_hex, rounding)
    /\ norm' = NormalizeAccent(hsl_seen')
    /\ palette' = generate_palette(accent_hex, wallpaper_path, rounding, truncation)
    /\ pc' = "generate_palette"
    /\ UNCHANGED <<cliVars, adjustVars, applyVars>>
    /\ UNCHANGED <<rgb_in, accent_hex, wallpaper_path, rounding, truncation, rgb_out,
                   palette_other, gnome_name, accentVars, kmeansVars>>

\* A second call, generate_palette(accent_hex, path), with another path
GeneratePaletteOther ==
    /\ pc = "generate_palette"
    /\ \E path \in Paths \ {wallpaper_path} :
          palette_other' = generate_palette(accent_hex, path, rounding, truncation)
    /\ pc' = "generate_palette_other"
    /\ UNCHANGED <<cliVars, adjustVars, applyVars>>
    /\ UNCHANGED <<rgb_in, accent_hex, wallpaper_path, rounding, truncation, rgb_out,
                   hsl_seen, norm, palette, gnome_name, accentVars, kmeansVars>>

\* Palette derivation
NextPalette == GeneratePalette \/ GeneratePaletteOther
SpecPalette == InitPalette /\ [][NextPalette]_vars

accent_name_of_raw(pal, rnd) == get_gnome_accent_name(accent_hex, rnd)
\* applier.py line 508 and line 108: apply_theme hands palette["accent"] to
\* apply_gnome_settings, which names it with get_gnome_accent_name
accent_name_of(pal, rnd) == get_gnome_accent_name(pal["accent"], rnd)

\* apply_gnome_settings(name, palette["accent"], wallpaper): the value it
\* writes to the accent-color key
ApplyGnomeSettings ==
    /\ pc = "generate_palette"
    /\ \E rnd \in HslRoundings(hex_to_rgb(palette["accent"])) :
          gnome_name' = accent_name_of(palette, rnd)
    /\ pc' = "apply_gnome_settings"
    /\ UNCHANGED <<cliVars, adjustVars, applyVars>>
    /\ UNCHANGED <<rgb_in, accent_hex, wallpaper_path, rounding, truncation, rgb_out,
                   hsl_seen, norm, palette, palette_other, accentVars, kmeansVars>>

\* A palette derived and its accent written to the GNOME settings
NextGnome == GeneratePalette \/ ApplyGnomeSettings
SpecGnome == InitPalette /\ [][NextGnome]_vars

\* A list of colours for pick_accent, and the roundings of each
InitAccent ==
    /\ Blank
    /\ NoApply
    /\ NoAdjust
    /\ NoCli
    /\ NoPixels
    /\ NoColour
    /\ pc = "colors"
    /\ colors \in SeqsUpTo(ListHexes, MaxColors)
    /\ rounding \in ListRoundings(colors)

\* pick_accent(colors)
PickAccent ==
    /\ pc = "colors"
    /\ scored' = IF colors = <<>> THEN <<>> ELSE Scored(colors, rounding)
    /\ picked' = Pick(colors, scored')
    /\ pc' = "pick_accent"
    /\ UNCHANGED <<cliVars, adjustVars, applyVars>>
    /\ UNCHANGED <<colourVars, colors, kmeansVars>>

\* Accent selection
NextAccent == PickAccent
SpecAccent == InitAccent /\ [][NextAccent]_vars

\* Samples for kmeans_colors: two reds, two blues
SamplePixels == {<<255, 0, 0>>, <<240, 15, 0>>, <<0, 0, 255>>, <<0, 15, 240>>}
MaxPixels == 4
MaxK == 3
MaxIters == {0, 1, DefaultMaxIter}

InitKMeans ==
    /\ Blank
    /\ NoApply
    /\ NoAdjust
    /\ NoCli
    /\ NoColour
    /\ pc = "idle"
    /\ colors = <<>>
    /\ rounding = <<>>
    /\ pixels_in \in SeqsUpTo(SamplePixels, MaxPixels)
    /\ k_in \in 1..MaxK
    /\ max_iter_in \in MaxIters

\* kmeans_colors(pixels, k, max_iter)
KMeansColors ==
    /\ pc = "idle"
    /\ kmeans' = kmeans_colors(pixels_in, k_in, max_iter_in)
    /\ pc' = "kmeans_colors"
    /\ UNCHANGED <<cliVars, adjustVars, applyVars>>
    /\ UNCHANGED <<colourVars, accentVars, pixels_in, k_in, max_iter_in, filtered_out,
                   rng, rng_at_call, results>>

\* Line 131: the returned centroids as hex strings, the list cli.py
\* (line 260) hands to pick_accent
HexOfCentroids ==
    /\ pc = "kmeans_colors"
    /\ colors' = HexList(kmeans.out)
    /\ rounding' \in ListRoundings(colors')
    /\ pc' = "colors"
    /\ UNCHANGED <<cliVars, adjustVars, applyVars>>
    /\ UNCHANGED <<rgb_in, accent_hex, wallpaper_path, truncation, rgb_out, hsl_seen,
                   norm, palette, palette_other, gnome_name, scored, picked, kmeansVars>>

\* Clustering a sample and picking the accent from the result
NextKMeans == KMeansColors \/ HexOfCentroids \/ PickAccent
SpecKMeans == InitKMeans /\ [][NextKMeans]_vars

\* Samples whose centroids move by exactly one unit: k = 1 on
\* (0,0,0), (2,0,0) starts at the first pixel and recomputes (1,0,0).  The
\* sums are exact integers and a mean is one correctly rounded division, so
\* equal exact centroids are equal doubles, and two centroids between 0 and
\* 2 are never at equal distance from a pixel unless they are equal.
ClosePixels == {<<0, 0, 0>>, <<2, 0, 0>>}

InitConverge ==
    /\ Blank
    /\ NoApply
    /\ NoAdjust
    /\ NoCli
    /\ NoColour
    /\ pc = "idle"
    /\ colors = <<>>
    /\ rounding = <<>>
    /\ pixels_in \in SeqsUpTo(ClosePixels, MaxPixels)
    /\ k_in \in 1..MaxK
    /\ max_iter_in \in MaxIters

\* Clustering samples of nearby pixels
SpecConverge == InitConverge /\ [][NextKMeans]_vars

\* Samples of two reds and a blue, for the claims about single rounds
RoundPixels == {<<255, 0, 0>>, <<240, 15, 0>>, <<0, 0, 255>>}

InitRounds ==
    /\ Blank
    /\ NoApply
    /\ NoAdjust
    /\ NoCli
    /\ NoColour
    /\ pc = "idle"
    /\ colors = <<>>
    /\ rounding = <<>>
    /\ pixels_in \in SeqsUpTo(RoundPixels, MaxPixels)
    /\ k_in \in 1..MaxK
    /\ max_iter_in \in MaxIters

\* Clustering these samples
SpecRounds == InitRounds /\ [][NextKMeans]_vars

\* Resized images for extract_colors: a red, a blue, a very dark and a very
\* bright pixel.  ImageSize stands for the 200 x 200 pixels of the resized
\* image, MinFiltered for the 1000 of line 125.
ImagePixels == {<<255, 0, 0>>, <<0, 15, 240>>, <<30, 15, 15>>, <<255, 240, 210>>}
ImageSize == 4
MinFiltered == 1
MaxNumColors == 2
MaxRuns == 2

InitExtract ==
    /\ Blank
    /\ NoApply
    /\ NoAdjust
    /\ NoCli
    /\ NoColour
    /\ pc = "idle"
    /\ colors = <<>>
    /\ rounding = <<>>
    /\ pixels_in \in {q \in SeqsUpTo(ImagePixels, ImageSize) : Len(q) = ImageSize}
    /\ k_in \in 1..MaxNumColors
    /\ max_iter_in = DefaultMaxIter

\* extract_colors(image_path, num_colors) on the image whose resized pixel
\* array is "pixels_in"
ExtractColors ==
    /\ Len(results) < MaxRuns
    /\ \E filtered \in {Filtered(pixels_in, MinFiltered)} :
       \E perm \in ShufflePerms(Seed42(rng), Len(filtered)) :
       \E shuffled \in {[i \in 1..Len(filtered) |-> filtered[perm[i]]]} :
          /\ filtered_out' = shuffled
          /\ kmeans' = kmeans_colors(shuffled, k_in, DefaultMaxIter)
          /\ colors' = HexList(kmeans'.out)
          /\ results' = Append(results, colors')
    /\ rng_at_call' = Append(rng_at_call, rng)
    /\ rng' = "drawn"
    /\ pc' = "extract_colors"
    /\ UNCHANGED <<cliVars, adjustVars, applyVars>>
    /\ UNCHANGED <<colourVars, scored, picked, pixels_in, k_in, max_iter_in>>

\* Any other use of np.random between two runs
OtherRandom ==
    /\ Len(results) < MaxRuns
    /\ rng' \in RngStates \ {rng}
    /\ UNCHANGED <<cliVars, adjustVars, applyVars>>
    /\ UNCHANGED <<pc, colourVars, accentVars, pixels_in, k_in, max_iter_in, kmeans,
                   filtered_out, rng_at_call, results>>

\* Colour extraction, run after run
NextExtract == ExtractColors \/ OtherRandom
SpecExtract == InitExtract /\ [][NextExtract]_vars

---------------------------------------------------------------------------
(* Command line: main of cli.py, one action per step of the function *)

\* str.strip() on blanks
RECURSIVE LStrip(_)
LStrip(x) == IF Len(x) > 0 /\ Head(x) = " " THEN LStrip(Tail(x)) ELSE x
RECURSIVE RStrip(_)
RStrip(x) ==
    IF Len(x) > 0 /\ x[Len(x)] = " " THEN RStrip(SubSeq(x, 1, Len(x) - 1)) ELSE x
strip(x) == RStrip(LStrip(x))

\* cli.py lines 255-257 and 273-275: the accent made of an override
AcceptAccent(raw) ==
    IF Len(strip(raw)) > 0 /\ Head(strip(raw)) = "#" THEN strip(raw)
    ELSE <<"#">> \o strip(raw)

\* Accent overrides: none, a good one with blanks around it, one of five
\* digits, one of eight digits, one with letters that are no hex digits
GoodOverride == <<"1", "e", "6", "6", "f", "5">>
FiveDigits == <<"#", "c", "4", "1", "e", "3">>
EightDigits == <<"c", "4", "1", "e", "3", "a", "f", "f">>
NoHexDigits == <<"#", "g", "g", "0", "0", "0", "0">>
ArgAccents == {<<>>, <<" ">> \o GoodOverride \o <<" ">>, FiveDigits, EightDigits,
               NoHexDigits}
\* What _prompt_input can return at the accent prompt (stripped; empty for
\* an empty line or end of input)
TypedAccents == {<<>>, GoodOverride, FiveDigits, NoHexDigits}

\* Paths: Path(p).expanduser().resolve() with /home/user as the working
\* directory, which always exists; the image file may exist or not
Cwd == "/home/user"
ImageFile == "/home/user/wall.png"
Resolve(p) == IF p = "" THEN Cwd ELSE IF p = "wall.png" THEN ImageFile ELSE p
ArgWallpapers == {"", "wall.png"}
TypedPaths == {"", "wall.png", "/nonexistent.png"}
ArgNames == {"", "Nord"}
TypedNames == {"MyTheme", "Typed"}
ArgOutputs == {""}
\* What extract_colors returns for the image file
ImageColours == {<<rgb_to_hex(128, 128, 128), rgb_to_hex(0, 255, 0)>>,
                 <<rgb_to_hex(255, 200, 200), rgb_to_hex(0, 0, 0)>>}

Asked(q, a) == [q |-> q, a |-> a]
InteractiveAlways == TRUE
\* Line 211: interactive = not args.no_interactive
Interactive == ~args.no_interactive

InitMain ==
    /\ Blank
    /\ NoApply
    /\ NoAdjust
    /\ NoPixels
    /\ NoColour
    /\ pc = "main"
    /\ colors = <<>>
    /\ rounding = <<>>
    /\ args \in [wallpaper : ArgWallpapers, name : ArgNames, accent : ArgAccents,
                 output : ArgOutputs, apply : BOOLEAN, no_interactive : BOOLEAN]
    /\ files \in {{Cwd}, {Cwd, ImageFile}}
    /\ detected \in {""} \cup (files \ {Cwd})

Return(code) ==
    /\ exit_code' = code
    /\ pc' = "returned"

\* Lines 216-230: the wallpaper named, detected or typed, with the questions
\* asked on the way; no record when main returns 1 at line 230
WallpaperChoices ==
    IF args.wallpaper # "" THEN {[wp |-> args.wallpaper, asked |-> <<>>]}
    ELSE IF detected # ""
    THEN IF Interactive
         THEN {[wp |-> detected, asked |-> <<Asked("Use this wallpaper?", "yes")>>]}
              \cup {[wp |-> t, asked |-> <<Asked("Use this wallpaper?", "no"),
                                          Asked("Wallpaper path", t)>>] :
                       t \in TypedPaths}
         ELSE {[wp |-> detected, asked |-> <<>>]}
    ELSE IF Interactive
    THEN {[wp |-> t, asked |-> <<Asked("Wallpaper path", t)>>] : t \in TypedPaths}
    ELSE {}

ExistsAlways(path) == TRUE
\* Line 234: Path(wallpaper).exists()
Exists(path) == path \in files

\* Step 1, lines 216-236
MainWallpaper ==
    /\ pc = "main"
    /\ \/ /\ WallpaperChoices = {}
          /\ Return("1")
          /\ UNCHANGED <<wallpaper_path, prompts>>
       \/ \E c \in WallpaperChoices :
            /\ prompts' = prompts \o c.asked
            /\ wallpaper_path' = Resolve(c.wp)
            /\ IF Exists(wallpaper_path')
               THEN pc' = "extract" /\ UNCHANGED exit_code
               ELSE Return("1")
    /\ UNCHANGED <<adjustVars, applyVars>>
    /\ UNCHANGED <<rgb_in, accent_hex, rounding, truncation, rgb_out, hsl_seen, norm,
                   palette, palette_other, gnome_name, accentVars, kmeansVars,
                   args, files, detected, theme_name, events>>

\* Step 2, lines 242-243: extract_colors(wallpaper); Image.open raises on a
\* path that is no image file
MainExtract ==
    /\ pc = "extract"
    /\ events' = Append(events, "extract_colors")
    /\ IF wallpaper_path = ImageFile
       THEN /\ colors' \in ImageColours
            /\ rounding' \in ListRoundings(colors')
            /\ pc' = "accent"
            /\ UNCHANGED exit_code
       ELSE /\ Return("OSError")
            /\ UNCHANGED <<colors, rounding>>
    /\ UNCHANGED <<adjustVars, applyVars>>
    /\ UNCHANGED <<rgb_in, accent_hex, wallpaper_path, truncation, rgb_out, hsl_seen,
                   norm, palette, palette_other, gnome_name, scored, picked,
                   kmeansVars, args, files, detected, theme_name, prompts>>

\* Lines 254-278: the accent strings step 3 can end with, with the
\* questions asked on the way
AccentChoices(best) ==
    IF args.accent # <<>>
    THEN {[accent |-> AcceptAccent(args.accent), asked |-> <<>>]}
    ELSE IF Interactive
    THEN {[accent |-> best, asked |-> <<Asked("Use this accent color?", "yes")>>]}
         \cup {[accent |-> IF t = <<>> THEN best ELSE AcceptAccent(t),
                asked |-> <<Asked("Use this accent color?", "no"),
                            Asked("Enter accent hex", t)>>] : t \in TypedAccents}
    ELSE {[accent |-> best, asked |-> <<>>]}

\* Step 3, lines 254-278; _color_swatch(accent) raises ValueError on an
\* accent it cannot parse
MainAccent ==
    /\ pc = "accent"
    /\ IF args.accent # <<>>
       THEN UNCHANGED <<scored, picked, events>>
       ELSE /\ scored' = IF colors = <<>> THEN <<>> ELSE Scored(colors, rounding)
            /\ picked' = Pick(colors, scored')
            /\ events' = Append(events, "pick_accent")
    /\ \E c \in AccentChoices(picked') :
          /\ prompts' = prompts \o c.asked
          /\ accent_hex' = c.accent
          /\ IF ParsesAsHex(c.accent)
             THEN pc' = "name" /\ UNCHANGED exit_code
             ELSE Return("ValueError")
    /\ UNCHANGED <<adjustVars, applyVars>>
    /\ UNCHANGED <<rgb_in, wallpaper_path, rounding, truncation, rgb_out, hsl_seen, norm,
                   palette, palette_other, gnome_name, colors, kmeansVars,
                   args, files, detected, theme_name>>

\* Step 4, lines 283-288
MainName ==
    /\ pc = "name"
    /\ IF args.name # ""
       THEN theme_name' = args.name /\ UNCHANGED prompts
       ELSE IF Interactive
       THEN \E t \in TypedNames :
               /\ theme_name' = t
               /\ prompts' = Append(prompts, Asked("Theme name", t))
       ELSE theme_name' = "MyTheme" /\ UNCHANGED prompts
    /\ pc' = "palette"
    /\ UNCHANGED <<adjustVars, applyVars>>
    /\ UNCHANGED <<colourVars, accentVars, kmeansVars, args, files, detected, events,
                   exit_code>>

ProceedsAlways(yn) == TRUE
\* Line 301: the run goes on unless _prompt_yn returned False
Proceeds(yn) == yn = "yes"

\* Step 5, lines 294-303: generate_palette(accent, wallpaper) and the
\* confirmation
MainPalette ==
    /\ pc = "palette"
    /\ events' = Append(events, "generate_palette")
    /\ rgb_in' = hex_to_rgb(accent_hex)
    /\ \E rnd \in HslRoundings(rgb_in'), fp \in Bits \X Bits \X Bits :
          /\ rounding' = rnd
          /\ truncation' = fp
          /\ palette' = generate_palette(accent_hex, wallpaper_path, rnd, fp)
    /\ IF Interactive
       THEN \E yn \in {"yes", "no"} :
               /\ prompts' = Append(prompts, Asked("Proceed with this palette?", yn))
               /\ IF Proceeds(yn) THEN pc' = "generate" /\ UNCHANGED exit_code
                  ELSE Return("0")
       ELSE pc' = "generate" /\ UNCHANGED <<prompts, exit_code>>
    /\ UNCHANGED <<adjustVars, applyVars>>
    /\ UNCHANGED <<accent_hex, wallpaper_path, rgb_out, hsl_seen, norm, palette_other,
                   gnome_name, accentVars, kmeansVars, args, files, detected,
                   theme_name>>

\* Lines 159-165: the generators _generate_all runs, in its order
Generators == <<"write_gtk_files", "write_browser_files", "write_terminal_files",
                "write_editor_files", "write_extra_files">>

\* Step 6, lines 306-311: the output directory and the theme files
MainGenerate ==
    /\ pc = "generate"
    /\ events' = events \o <<"mkdir">> \o Generators
    /\ pc' = "apply"
    /\ UNCHANGED <<adjustVars, applyVars>>
    /\ UNCHANGED <<colourVars, accentVars, kmeansVars, args, files, detected, theme_name,
                   prompts, exit_code>>

DoApplyAlways(yn) == TRUE
\* Lines 329-334: do_apply
DoApply(yn) == args.apply \/ yn = "yes"

\* Step 7, lines 329-351
MainApply ==
    /\ pc = "apply"
    /\ \E yn \in IF ~args.apply /\ Interactive THEN {"yes", "no"} ELSE {"unasked"} :
          /\ prompts' = IF yn = "unasked" THEN prompts
                        ELSE Append(prompts, Asked("Apply theme system-wide now?", yn))
          /\ events' = IF DoApply(yn) THEN Append(events, "apply_theme")
                       ELSE events
    /\ Return("0")
    /\ UNCHANGED <<adjustVars, applyVars>>
    /\ UNCHANGED <<colourVars, accentVars, kmeansVars, args, files, detected, theme_name>>

\* A run of the command line
NextMain ==
    \/ MainWallpaper \/ MainExtract \/ MainAccent \/ MainName
    \/ MainPalette \/ MainGenerate \/ MainApply
SpecMain == InitMain /\ [][NextMain]_vars

---------------------------------------------------------------------------
(* apply_theme (applier.py).  Strings are sequences of characters. *)

UpperLetters == <<"A", "B", "C", "D", "E", "F", "G", "H", "I", "J", "K", "L", "M">>
                \o <<"N", "O", "P", "Q", "R", "S", "T", "U", "V", "W", "X", "Y", "Z">>
LowerLetters == <<"a", "b", "c", "d", "e", "f", "g", "h", "i", "j", "k", "l", "m">>
                \o <<"n", "o", "p", "q", "r", "s", "t", "u", "v", "w", "x", "y", "z">>
\* str.lower() on one character
LowerOf(c) == IF \E i \in 1..26 : UpperLetters[i] = c
              THEN LowerLetters[CHOOSE i \in 1..26 : UpperLetters[i] = c] ELSE c
Lower(t) == [i \in 1..Len(t) |-> LowerOf(t[i])]
\* str.replace(" ", "")
NoSpaces(t) == SelectSeq(t, LAMBDA c : c # " ")

NormalisedCaseOnly(t) == Lower(t)
\* Line 521: s.lower().replace(" ", "")
Normalised(t) == NoSpaces(Lower(t))

\* Lines 504-518: the labels of "steps", in their order
StepLabels == <<
    <<"G", "T", "K", " ", "T", "h", "e", "m", "e">>,
    <<"G", "N", "O", "M", "E", " ", "S", "e", "t", "t", "i", "n", "g", "s">>,
    <<"D", "a", "s", "h", " ", "t", "o", " ", "D", "o", "c", "k">>,
    <<"T", "e", "r", "m", "i", "n", "a", "l">>,
    <<"B", "r", "o", "w", "s", "e", "r", "s">>,
    <<"V", "S", " ", "C", "o", "d", "e">>,
    <<"A", "n", "t", "i", "g", "r", "a", "v", "i", "t", "y">>,
    <<"O", "p", "e", "n", "C", "o", "d", "e">>,
    <<"K", "i", "l", "o", " ", "C", "o", "d", "e">>,
    <<"F", "a", "s", "t", "f", "e", "t", "c", "h">> >>

\* Line 521: the label is in skip, compared after normalisation
Skipped(label, names) ==
    \E i \in 1..Len(names) : Normalised(names[i]) = Normalised(label)

\* Lines 522, 526, 529: the status lines
SkipLine(label) == <<"[", "S", "K", "I", "P", "]", " ">> \o label
OkLine(label) == <<"[", "O", "K", "]", " ">> \o label
FailLine(label, e) == <<"[", "F", "A", "I", "L", "]", " ">> \o label \o <<":", " ">> \o e

\* What a step can return: a list of indented lines (every log.append of
\* the apply_* functions starts with two blanks); apply_gnome_settings can
\* return line 127's "  [SKIP] Could not set ..."
StepResults(label) ==
    IF label = StepLabels[2]
    THEN { << <<" ", " ", "S", "e", "t">> >>,
           << <<" ", " ", "[", "S", "K", "I", "P", "]">>, <<" ", " ", "S", "e", "t">> >> }
    ELSE { << <<" ", " ", "I", "n", "s", "t", "a", "l", "l", "e", "d">> >> }
\* str(e) of what a step can raise
StepErrors == { <<"g", "o", "n", "e">> }

\* Values of skip: None, spellings of labels, a name that is no label
SkipLists == {
    <<>>,
    << <<"g", "t", "k", "t", "h", "e", "m", "e">> >>,
    << <<"G", "T", "K", " ", "T", "H", "E", "M", "E">>, <<"f", "a", "s", "t", " ", "f", "e", "t", "c", "h">> >>,
    << <<"v", "s", "c", "o", "d", "e">>, <<"K", "i", "l", "o", " ", "C", "o", "d", "e">>, <<"D", "o", "c", "k">> >> }

InitApply ==
    /\ Blank
    /\ NoAdjust
    /\ NoCli
    /\ NoPixels
    /\ NoColour
    /\ pc = "apply_theme"
    /\ colors = <<>>
    /\ rounding = <<>>
    /\ skip \in SkipLists
    /\ step = 1

\* Lines 520-529: one pass of the loop.  The step is skipped, or called, and
\* then returns its lines or raises an Exception.
ApplyStep ==
    /\ pc = "apply_theme"
    /\ step <= Len(StepLabels)
    /\ LET label == StepLabels[step]
       IN  IF Skipped(label, skip)
           THEN /\ all_log' = Append(all_log, SkipLine(label))
                /\ UNCHANGED ran
           ELSE \/ \E result \in StepResults(label) :
                     /\ all_log' = Append(all_log, OkLine(label)) \o result
                     /\ ran' = Append(ran, [label |-> label, raised |-> FALSE])
                \/ \E e \in StepErrors :
                     /\ all_log' = Append(all_log, FailLine(label, e))
                     /\ ran' = Append(ran, [label |-> label, raised |-> TRUE])
    /\ step' = step + 1
    /\ UNCHANGED <<pc, skip, colourVars, accentVars, kmeansVars, cliVars, adjustVars>>

\* Line 531: return all_log
ApplyReturn ==
    /\ pc = "apply_theme"
    /\ step > Len(StepLabels)
    /\ pc' = "applied"
    /\ UNCHANGED <<applyVars, colourVars, accentVars, kmeansVars, cliVars, adjustVars>>

\* One call of apply_theme
NextApply == ApplyStep \/ ApplyReturn
SpecApply == InitApply /\ [][NextApply]_vars

---------------------------------------------------------------------------
(* Claims about colour math, palette derivation and accent naming *)

RoleKeys == {
    "bg_deepest", "bg_main", "bg_surface", "bg_elevated", "border",
    "border_bright", "accent", "accent_hover", "accent_light", "accent_soft",
    "accent_rose", "text", "text_muted", "text_dim", "green", "blue",
    "magenta", "cyan", "warning", "insensitive_bg", "insensitive_fg",
    "deep_maroon", "ansi_black", "ansi_red", "ansi_green", "ansi_yellow",
    "ansi_blue", "ansi_magenta", "ansi_cyan", "ansi_white",
    "ansi_bright_black", "ansi_bright_red", "ansi_bright_green",
    "ansi_bright_yellow", "ansi_bright_blue", "ansi_bright_magenta",
    "ansi_bright_cyan", "ansi_bright_white"}
LowerHexChars == {HexDigits[i] : i \in 1..16}
\* ^#[0-9a-f]{6}$
IsHexColour(v) ==
    /\ Len(v) = 7
    /\ v[1] = "#"
    /\ \A i \in 2..7 : v[i] \in LowerHexChars

\* C1: for every valid accent string and any wallpaper path, the mapping
\* generate_palette returns has exactly the 38 colour roles plus "wallpaper",
\* and every colour value is "#" followed by six lowercase hex digits.
C1_PaletteTotal ==
    pc = "generate_palette" =>
        /\ Cardinality(RoleKeys) = 38
        /\ DOMAIN palette = RoleKeys \cup {"wallpaper"}
        /\ \A k \in RoleKeys : IsHexColour(palette[k])
\* A palette derived from an accent spelled in upper case without "#", with a
\* channel below 16 in one of its values
C1_Witness ==
    /\ pc = "generate_palette"
    /\ accent_hex = <<"C", "4", "1", "E", "3", "A">>
    /\ wallpaper_path # ""
    /\ \E k \in RoleKeys : palette[k][2] = "0"

\* C2: hsl_to_rgb(rgb_to_hsl(r, g, b)) differs from (r, g, b) by at most 1 in
\* each channel.
C2_RoundTripWithinOne ==
    pc = "round_trip" =>
        \A i \in 1..3 : Abs(rgb_out[i] - rgb_in[i]) <= 1
\* A round trip that loses one unit in a channel and keeps another
C2_Witness ==
    /\ pc = "round_trip"
    /\ rgb_in = <<196, 30, 58>>
    /\ rgb_out = <<195, 30, 57>>

\* The signed order of a double (q, e) against the number v
Below(q, e, v) == FCmp(q, e, Q(v), 0) < 0
Above(q, e, v) == FCmp(q, e, Q(v), 0) > 0

\* C7: accent normalisation replaces saturation below 40 by 60, lightness
\* below 25 by 40, lightness above 65 by 50 and keeps every other value, so
\* the normalised accent has saturation >= 40 and lightness in [25, 65]; the
\* accent #000000 is normalised to saturation 60, lightness 40, and the
\* accent role is derived from the normalised values.
C7_AccentNormalised ==
    pc = "generate_palette" =>
        LET x == hsl_seen
        IN  /\ norm.ah = x.h
            /\ norm.a_s = IF Below(x.s, x.es, 40) THEN Q(60) ELSE x.s
            /\ norm.al = IF Below(x.l, x.el, 25) THEN Q(40)
                         ELSE IF Above(x.l, x.el, 65) THEN Q(50) ELSE x.l
            /\ ~Below(norm.a_s, norm.es, 40)
            /\ ~Below(norm.al, norm.el, 25)
            /\ ~Above(norm.al, norm.el, 65)
            /\ rgb_in = <<0, 0, 0>> =>
                   /\ norm.a_s = Q(60)
                   /\ norm.al = Q(40)
                   /\ palette.accent = <<"#", "a", "3", "2", "8", "2", "8">>
\* Black has been normalised to saturation 60, lightness 40
C7_Witness ==
    /\ pc = "generate_palette"
    /\ accent_hex = <<"#", "0", "0", "0", "0", "0", "0">>
    /\ hsl_seen.s = Q(0) /\ hsl_seen.l = Q(0)
    /\ norm.a_s = Q(60) /\ norm.al = Q(40)

\* The name the documented hue table gives the hue (q, e)
HueTableName(q, e) ==
    LET lt(v) == Below(q, e, v)
    IN  CASE lt(15) \/ ~lt(345)   -> "red"
          [] ~lt(15) /\ lt(40)    -> "orange"
          [] ~lt(40) /\ lt(70)    -> "yellow"
          [] ~lt(70) /\ lt(160)   -> "green"
          [] ~lt(160) /\ lt(195)  -> "teal"
          [] ~lt(195) /\ lt(260)  -> "blue"
          [] ~lt(260) /\ lt(300)  -> "purple"
          [] ~lt(300) /\ lt(345)  -> "pink"
HueRanges(q, e) ==
    LET lt(v) == Below(q, e, v)
    IN  <<lt(15) \/ ~lt(345), ~lt(15) /\ lt(40), ~lt(40) /\ lt(70),
          ~lt(70) /\ lt(160), ~lt(160) /\ lt(195), ~lt(195) /\ lt(260),
          ~lt(260) /\ lt(300), ~lt(300) /\ lt(345)>>

\* C8: for a colour outside the slate range get_gnome_accent_name returns
\* the one name of the hue table with ranges closed on the low side: hue < 15
\* or >= 345 red, [15,40) orange, [40,70) yellow, [70,160) green, [160,195)
\* teal, [195,260) blue, [260,300) purple, [300,345) pink; a hue of exactly
\* 15.0 is orange and of exactly 345.0 is red.
C8_HueTable ==
    (pc = "get_gnome_accent_name" /\ ~Below(hsl_seen.s, hsl_seen.es, 15)) =>
        LET x == hsl_seen
        IN  /\ Cardinality({i \in 1..8 : HueRanges(x.h, x.eh)[i]}) = 1
            /\ gnome_name = HueTableName(x.h, x.eh)
            /\ (x.h = Q(15) /\ x.eh = 0) => gnome_name = "orange"
            /\ (x.h = Q(345) /\ x.eh = 0) => gnome_name = "red"
            /\ (x.h = Q(300) /\ x.eh = 0) => gnome_name = "pink"
\* A hue of exactly 15.0 has been named orange
C8_Witness ==
    /\ pc = "get_gnome_accent_name"
    /\ hsl_seen.h = Q(15) /\ hsl_seen.eh = 0
    /\ gnome_name = "orange"

\* C9 as stated: a colour with saturation exactly 15.0 is named slate
\* whatever its hue.
C9_SlateAtExactly15 ==
    (pc = "get_gnome_accent_name" /\ hsl_seen.s = Q(15) /\ hsl_seen.es = 0)
        => gnome_name = "slate"
\* C9 amended: get_gnome_accent_name returns slate exactly when the
\* saturation is below 15; at saturation exactly 15.0, as above it, the hue
\* table applies.
C9_SlateBelow15 ==
    pc = "get_gnome_accent_name" =>
        /\ gnome_name = "slate" <=> Below(hsl_seen.s, hsl_seen.es, 15)
        /\ ~Below(hsl_seen.s, hsl_seen.es, 15) =>
               gnome_name = HueTableName(hsl_seen.h, hsl_seen.eh)
\* A colour with saturation exactly 15.0 has been named by the hue table
C9_Witness ==
    /\ pc = "get_gnome_accent_name"
    /\ hsl_seen.s = Q(15) /\ hsl_seen.es = 0
    /\ gnome_name = "red"

---------------------------------------------------------------------------
(* Claims about accent selection *)

\* The score and the saturation test of the i-th colour of the list
ScoreAt(i) == score_accent(colors[i], rounding[i])
ScoreCmp(i, j) == FCmp(ScoreAt(i).q, ScoreAt(i).e, ScoreAt(j).q, ScoreAt(j).e)
SatAbove20(i) ==
    LET x == hex_to_hsl(colors[i], rounding[i])
    IN  FCmp(x.s, x.es, Q(20), 0) > 0
Picked == pc = "pick_accent" /\ colors # <<>>

\* C3: for every non-empty list, pick_accent returns a colour whose score is
\* the maximum over the list, and among several colours with that maximum
\* score it returns the one that occurs first in the list.
C3_MaxScoreFirstWins ==
    Picked =>
        \E i \in 1..Len(colors) :
            /\ picked = colors[i]
            /\ \A j \in 1..Len(colors) : ScoreCmp(j, i) <= 0
            /\ \A j \in 1..(i - 1) : ScoreCmp(j, i) < 0

\* C4: every colour with saturation <= 20 scores strictly lower than every
\* colour with saturation > 20, so pick_accent on a list with at least one
\* colour of saturation > 20 never returns a colour of saturation <= 20.
C4_GreySuppressed ==
    Picked =>
        /\ \A i, j \in 1..Len(colors) :
               ~SatAbove20(i) /\ SatAbove20(j) => ScoreCmp(i, j) < 0
        /\ (\E j \in 1..Len(colors) : SatAbove20(j)) =>
               \E i \in 1..Len(colors) : picked = colors[i] /\ SatAbove20(i)

---------------------------------------------------------------------------
(* Claims about k-means extraction *)

Clustered == pc = "kmeans_colors" /\ pixels_in # <<>>

\* C5: kmeans_colors returns the final centroids ordered by cluster
\* population descending, and two clusters with equal population appear in
\* ascending order of their cluster index.
C5_PopulationThenIndex ==
    Clustered =>
        /\ \A a, b \in 1..k_in :
               a < b =>
                  \/ kmeans.counts[kmeans.order[a]] > kmeans.counts[kmeans.order[b]]
                  \/ /\ kmeans.counts[kmeans.order[a]] = kmeans.counts[kmeans.order[b]]
                     /\ kmeans.order[a] < kmeans.order[b]
        /\ \A a \in 1..k_in : \A ch \in 1..3 :
               kmeans.out[a][ch] = QTrunc(kmeans.c[kmeans.order[a]][ch])

\* C6: two runs of extract_colors on the same pixel array with the same
\* number of colours return identical ordered lists, whatever use of the
\* random generator happened before each.
C6_SameImageSameColours ==
    \A a, b \in 1..Len(results) : results[a] = results[b]

\* Two runs that found the generator in different states, on an image the
\* filter shortens, returning two different colours
C6_Witness ==
    /\ Len(results) = 2
    /\ rng_at_call[1] # rng_at_call[2]
    /\ Len(Filtered(pixels_in, MinFiltered)) \in 2..(ImageSize - 1)
    /\ Len(results[2]) = 2
    /\ results[2][1] # results[2][2]

\* C10: kmeans_colors on an empty sample returns an empty sequence without
\* failing, pick_accent on the empty list returns '#c41e3a', and so the
\* chain from an empty sample always goes on to the accent '#c41e3a'.
C10_EmptySampleFallback ==
    pixels_in = <<>> =>
        /\ pc # "idle" => kmeans.out = <<>>
        /\ pc \in {"colors", "pick_accent"} => colors = <<>>
        /\ pc = "pick_accent" => picked = <<"#", "c", "4", "1", "e", "3", "a">>
        /\ pc # "pick_accent" => ENABLED NextKMeans

C10_Witness ==
    /\ pixels_in = <<>>
    /\ pc = "pick_accent"
    /\ kmeans.out = <<>>
    /\ picked = <<"#", "c", "4", "1", "e", "3", "a">>

---------------------------------------------------------------------------
(* Claims about the score, the sample and the filter *)

\* The documented terms of the score of the i-th colour of the list
LightnessTerm(i) ==
    LET x == hex_to_hsl(colors[i], rounding[i])
    IN  IF Below(x.l, x.el, 15) \/ Above(x.l, x.el, 85) THEN <<1, 10>>
        ELSE IF Below(x.l, x.el, 25) \/ Above(x.l, x.el, 60) THEN <<1, 2>>
        ELSE Q(1)
GreyTerm(i) == IF SatAbove20(i) THEN Q(1) ELSE <<1, 10>>
DocumentedScore(i) ==
    QMul(QMul(QDiv(hex_to_hsl(colors[i], rounding[i]).s, Q(100)), LightnessTerm(i)),
         GreyTerm(i))

\* C11: score_accent equals (saturation / 100) x lightness term x grey term,
\* the lightness term being 1.0 on [25, 60], 0.5 on [15, 25) and (60, 85],
\* 0.1 below 15 and above 85, the grey term 1.0 above saturation 20 and 0.1
\* otherwise; the score lies in [0, 1].
C11_ScoreFormula ==
    Picked =>
        \A i \in 1..Len(colors) :
            \E m \in 1..Len(scored) :
                /\ scored[m][2] = colors[i]
                /\ scored[m][1].q = DocumentedScore(i)
                /\ QLe(Q(0), scored[m][1].q)
                /\ QLe(scored[m][1].q, Q(1))

\* A list with a colour of lightness exactly 60 (full lightness term) and a
\* colour in the half tier
C11_Witness ==
    /\ Picked
    /\ \E i, j \in 1..Len(colors) :
          /\ hex_to_hsl(colors[i], rounding[i]).l = Q(60)
          /\ LightnessTerm(i) = Q(1)
          /\ LightnessTerm(j) = <<1, 2>>

\* C12: for every non-empty sample, also one with fewer pixels or fewer
\* distinct colours than k, kmeans_colors returns exactly k colours, each
\* with integer channels in 0..255.
C12_ExactlyKColours ==
    Clustered =>
        /\ Len(kmeans.out) = k_in
        /\ \A a \in 1..Len(kmeans.out) : \A ch \in 1..3 : kmeans.out[a][ch] \in 0..255

\* A sample of fewer pixels than k, and one of k pixels of a single colour
C12_Witness ==
    /\ Clustered
    /\ max_iter_in = DefaultMaxIter
    /\ \/ Len(pixels_in) < k_in
       \/ Len(pixels_in) = k_in /\ k_in > 1 /\ \A i \in 1..Len(pixels_in) : pixels_in[i] = pixels_in[1]
    /\ Len(kmeans.out) = k_in

\* The three channels hsl_to_rgb approximates: colorsys.hls_to_rgb scaled
\* to 0..255, before int()
ExactRgb(hsl) ==
    LET c == hls_to_rgb(QDiv(hsl[1], Q(360)), QDiv(hsl[3], Q(100)), QDiv(hsl[2], Q(100)))
    IN  [ch \in 1..3 |-> QMul(c[ch], Q(255))]

\* C17: for saturation and lightness in [0,100], each channel returned by
\* hsl_to_rgb is the exact value scaled to 0..255 and rounded to the nearest
\* integer (either neighbour at a tie), and lies in 0..255.
C17_RoundedToNearest ==
    pc = "hsl_to_rgb" =>
        \A ch \in 1..3 :
            /\ rgb_out[ch] \in 0..255
            /\ QLe(QAbs(QSub(Q(rgb_out[ch]), ExactRgb(hsl_in)[ch])), <<1, 2>>)

\* clamp(x, 0, 100)
Clamp100(x) == QMax(Q(0), QMin(Q(100), x))
\* The conversion the four adjustments are documented to return
ClampedAdjust(fn, hexc, amount, fp) ==
    LET x == hex_to_hsl(hexc, NoRnd)
    IN  CASE fn = "lighten"    -> hsl_to_hex(x.h, x.s, Clamp100(QAdd(x.l, amount)), fp)
          [] fn = "darken"     -> hsl_to_hex(x.h, x.s, Clamp100(QSub(x.l, amount)), fp)
          [] fn = "saturate"   -> hsl_to_hex(x.h, Clamp100(QAdd(x.s, amount)), x.l, fp)
          [] fn = "desaturate" -> hsl_to_hex(x.h, Clamp100(QSub(x.s, amount)), x.l, fp)

\* C18: for every colour and every amount, negative or above 100 included,
\* lighten, darken, saturate and desaturate return the conversion of the
\* HSL whose adjusted channel is clamped to [0,100].
C18_AdjustClampsBothSides ==
    pc \in {"lighten", "darken", "saturate", "desaturate"} =>
        adjusted = ClampedAdjust(pc, hexc_in, amount_in, truncation)

\* The sample with its rows rearranged: row i is row perm[i] of pixels
Permuted(pixels, perm) == [i \in 1..Len(pixels) |-> pixels[perm[i]]]

\* C16: for any sample and any permutation of it, kmeans_colors (same k,
\* same iteration cap) returns the same ordered list of colours.
C16_PixelOrderIrrelevant ==
    Clustered =>
        \A perm \in RowPermutations(Len(pixels_in)) :
            kmeans_colors(Permuted(pixels_in, perm), k_in, max_iter_in).out = kmeans.out

\* The pixels the filter keeps, and how often a pixel occurs in a sample
Survivors(image) ==
    {i \in 1..Len(image) :
        ~(image[i][1] + image[i][2] + image[i][3] <= 60)
        /\ ~(image[i][1] + image[i][2] + image[i][3] >= 700)}
Occurrences(sample, among, p) ==
    Cardinality({i \in among : sample[i] = p})
Extracted == pc = "extract_colors"

\* C13: the filter is applied whenever at least 1000 pixels (MinFiltered in
\* the scaled image) survive it, and the unfiltered sample is clustered only
\* when fewer survive; with exactly that many survivors the filtered sample
\* is clustered.
C13_FilterFromThreshold ==
    Extracted =>
        \A p \in ImagePixels :
            Occurrences(filtered_out, 1..Len(filtered_out), p) =
                IF Cardinality(Survivors(pixels_in)) >= MinFiltered
                THEN Occurrences(pixels_in, Survivors(pixels_in), p)
                ELSE Occurrences(pixels_in, 1..Len(pixels_in), p)

\* C14: two calls of generate_palette with the same accent and different
\* wallpaper paths agree on every colour role and differ only in
\* "wallpaper", which is the wallpaper_path argument unchanged.
C14_PathOnlyInWallpaper ==
    /\ pc \in {"generate_palette", "generate_palette_other"} =>
          palette["wallpaper"] = wallpaper_path
    /\ pc = "generate_palette_other" =>
          /\ \A k \in RoleKeys : palette_other[k] = palette[k]
          /\ palette_other["wallpaper"] # palette["wallpaper"]
          /\ palette_other["wallpaper"] \in Paths \ {wallpaper_path}

\* Two calls, one without and one with a wallpaper path, on an accent that
\* the normalisation changes
C14_Witness ==
    /\ pc = "generate_palette_other"
    /\ wallpaper_path = ""
    /\ palette_other["wallpaper"] = "/home/user/wall.png"
    /\ palette["accent"] # rgb_to_hex(rgb_in[1], rgb_in[2], rgb_in[3])
    /\ palette_other["accent"] = palette["accent"]

---------------------------------------------------------------------------
(* Claims about the command line *)

\* An accent override was given, by --accent or at the accent prompt
OverrideGiven ==
    \/ args.accent # <<>>
    \/ \E i \in 1..Len(prompts) :
          prompts[i].q = "Enter accent hex" /\ prompts[i].a # <<>>
\* Step 3 has run
AccentTaken == accent_hex # <<>>
Happened(e) == \E i \in 1..Len(events) : events[i] = e

\* C15: an accent override that is not six hex digits (after an optional
\* "#") is rejected with a parse error where main accepts it: the run
\* reaches neither palette generation nor file generation nor apply.
C15_MalformedRejected ==
    (AccentTaken /\ OverrideGiven /\ ~ParsesSixDigits(accent_hex)) =>
        /\ exit_code = "ValueError"
        /\ ~Happened("generate_palette")
        /\ ~Happened("mkdir")
        /\ ~Happened("apply_theme")


\* C19: a run with --no-interactive asks no question (_prompt_yn,
\* _prompt_input) on any path: wallpaper, accent, name, palette
\* confirmation and apply are taken from the arguments or from defaults.
C19_NoPromptNonInteractive ==
    (args # <<>> /\ args.no_interactive) => prompts = <<>>

\* A non-interactive run that took the detected wallpaper, the picked
\* accent and the default name, wrote the files and returned 0
C19_Witness ==
    /\ args # <<>>
    /\ args.no_interactive
    /\ args.wallpaper = ""
    /\ args.accent = <<>>
    /\ args.name = ""
    /\ ~args.apply
    /\ exit_code = "0"
    /\ theme_name = "MyTheme"
    /\ Happened("mkdir")
    /\ ~Happened("apply_theme")
    /\ prompts = <<>>


---------------------------------------------------------------------------
(* Claims about the k-means loop *)

\* Lines 78-79: the initial centroids
InitialCentroids(pixels, k) ==
    [j \in 1..k |-> [ch \in 1..3 |-> Q(pixels[Linspace(Len(pixels), k)[j]][ch])]]

\* Every centroid moved by less than one unit in every channel
MovedLessThanOne(a, b) ==
    \A j \in 1..Len(a) : \A ch \in 1..3 :
        QLt(QAbs(QSub(a[j][ch], b[j][ch])), Q(1))

\* The number of rounds of a loop that stops exactly when every centroid
\* moved by less than one unit, and after max_iter rounds at the latest
RECURSIVE RoundsBelowOne(_, _, _, _)
RoundsBelowOne(pixels, cents, left, done) ==
    IF left = 0 THEN done
    ELSE Once(LAMBDA new : IF MovedLessThanOne(cents, new) THEN done + 1
                           ELSE RoundsBelowOne(pixels, new, left - 1, done + 1),
              NewCentroids(pixels, cents, Labels(pixels, cents)))

\* C20: the loop of kmeans_colors stops early exactly when every centroid
\* moved by less than 1 unit in every channel, continues after a movement
\* of 1 unit or more, and never runs more than max_iter rounds.
C20_StopsBelowOneUnit ==
    Clustered =>
        /\ kmeans.rounds <= max_iter_in
        /\ kmeans.rounds =
              RoundsBelowOne(pixels_in, InitialCentroids(pixels_in, k_in), max_iter_in, 0)


\* The centroids each assignment of a call is made against: those at the
\* start of every round that runs, and those of the final ranking (lines
\* 102-105), which are the last of them
RECURSIVE AssignedAgainst(_, _, _)
AssignedAgainst(pixels, cents, left) ==
    IF left = 0 THEN <<cents>>
    ELSE Once(LAMBDA new : IF AllClose(cents, new) THEN <<cents>>
                           ELSE <<cents>> \o AssignedAgainst(pixels, new, left - 1),
              NewCentroids(pixels, cents, Labels(pixels, cents)))

RECURSIVE SumSeq(_)
SumSeq(seq) == IF seq = <<>> THEN 0 ELSE Head(seq) + SumSeq(Tail(seq))

\* labels gives every pixel one cluster whose centroid is at minimum
\* distance, and the populations add up to the number of pixels
Partitions(pixels, cents, labels) ==
    /\ DOMAIN labels = 1..Len(pixels)
    /\ \A i \in 1..Len(pixels) :
          /\ labels[i] \in 1..Len(cents)
          /\ \A m \in 1..Len(cents) :
                QLe(Dist2(pixels[i], cents[labels[i]]), Dist2(pixels[i], cents[m]))
    /\ SumSeq(CountsOf(labels, Len(cents))) = Len(pixels)

\* C21: at every iteration and in the final ranking of kmeans_colors each
\* pixel is in exactly one cluster, whose centroid is at minimum distance
\* from it, and the k population counts sum to the number of pixels.
C21_ClustersPartitionSample ==
    Clustered =>
        \A sets \in {AssignedAgainst(pixels_in, InitialCentroids(pixels_in, k_in),
                                     max_iter_in)} :
            /\ \A r \in 1..Len(sets) :
                  \A labels \in {Labels(pixels_in, sets[r])} :
                      Partitions(pixels_in, sets[r], labels)
            /\ sets[Len(sets)] = kmeans.c
            /\ Len(kmeans.counts) = k_in
            /\ SumSeq(kmeans.counts) = Len(pixels_in)

\* Three clusters over four pixels of two far colours, after two rounds
C21_Witness ==
    /\ Clustered
    /\ k_in = 3
    /\ Len(pixels_in) = 4
    /\ kmeans.rounds >= 2
    /\ \E i, j \in 1..4 : pixels_in[i][1] = 255 /\ pixels_in[j][3] = 255
    /\ SumSeq(kmeans.counts) = 4


\* new is what one round makes of cents: a centroid without pixels is
\* kept, one with pixels is the per-channel mean of exactly its pixels
Recomputed(pixels, cents, labels, new) ==
    /\ Len(new) = Len(cents)
    /\ \A j \in 1..Len(cents) :
          LET mine == {i \in 1..Len(pixels) : labels[i] = j}
          IN  IF mine = {} THEN new[j] = cents[j]
              ELSE \A ch \in 1..3 :
                      QMul(new[j][ch], Q(Cardinality(mine)))
                          = Q(SumOver(pixels, mine, ch))

C23_CentroidsRounded ==
    Clustered =>
        \A a \in 1..Len(kmeans.out) : \A ch \in 1..3 :
            QLe(QAbs(QSub(Q(kmeans.out[a][ch]), kmeans.c[kmeans.order[a]][ch])),
                <<1, 2>>)


---------------------------------------------------------------------------
(* Claims about the semantic and ANSI roles *)

\* The hue documented for the magenta role of an accent of hue (q, e)
DocumentedMagentaHue(q, e) ==
    IF Below(q, e, 60) \/ ~Below(q, e, 300) THEN Q(320)
    ELSE QMod(QAdd(q, Q(180)), Q(360))
\* Line 201: the magenta role of that hue
MagentaOfHue(hue) ==
    hsl_to_hex(hue, QMin(Q(60), QMax(Q(40), QMul(norm.a_s, <<4, 5>>))), Q(50),
               truncation)

\* C24: the magenta role uses hue 320 when the accent hue is < 60 or >= 300
\* and the accent hue rotated by 180 degrees (mod 360) when it is in
\* [60, 300); a hue of exactly 60 is rotated, one of exactly 300 is not.
C24_MagentaHue ==
    pc = "generate_palette" =>
        LET x == hsl_seen
        IN  /\ palette["magenta"] = MagentaOfHue(DocumentedMagentaHue(x.h, x.eh))
            /\ (x.h = Q(60) /\ x.eh = 0) => palette["magenta"] = MagentaOfHue(Q(240))
            /\ (x.h = Q(300) /\ x.eh = 0) => palette["magenta"] = MagentaOfHue(Q(320))

\* An accent of hue exactly 60.0 whose magenta has hue 240, not 320
C24_Witness ==
    /\ pc = "generate_palette"
    /\ hsl_seen.h = Q(60) /\ hsl_seen.eh = 0
    /\ palette["magenta"] = MagentaOfHue(Q(240))
    /\ palette["magenta"] # MagentaOfHue(Q(320))


\* C25: in every palette returned by generate_palette the ANSI slots alias
\* the derived roles: ansi_red = accent, ansi_green = green, ansi_blue =
\* blue, ansi_magenta = magenta, ansi_cyan = cyan, ansi_white = text_muted,
\* ansi_bright_black = border, ansi_bright_red = accent_light,
\* ansi_bright_yellow = accent_rose, and insensitive_fg = text_dim.
C25_AnsiAliases ==
    pc = "generate_palette" =>
        /\ palette["ansi_red"] = palette["accent"]
        /\ palette["ansi_green"] = palette["green"]
        /\ palette["ansi_blue"] = palette["blue"]
        /\ palette["ansi_magenta"] = palette["magenta"]
        /\ palette["ansi_cyan"] = palette["cyan"]
        /\ palette["ansi_white"] = palette["text_muted"]
        /\ palette["ansi_bright_black"] = palette["border"]
        /\ palette["ansi_bright_red"] = palette["accent_light"]
        /\ palette["ansi_bright_yellow"] = palette["accent_rose"]
        /\ palette["insensitive_fg"] = palette["text_dim"]

\* A palette whose ten aliased roles are ten different colours
C25_Witness ==
    /\ pc = "generate_palette"
    /\ palette["ansi_red"] = palette["accent"]
    /\ palette["ansi_bright_yellow"] = palette["accent_rose"]
    /\ Cardinality({palette[k] : k \in {"accent", "green", "blue", "magenta", "cyan",
                                        "text_muted", "border", "accent_light",
                                        "accent_rose", "text_dim"}}) = 10


---------------------------------------------------------------------------
(* Claims about apply_theme *)

\* The lines of a log that are status lines: those that start with "["
StatusLines(log) == SelectSeq(log, LAMBDA l : l # <<>> /\ l[1] = "[")
IsPrefix(a, b) == Len(a) <= Len(b) /\ SubSeq(b, 1, Len(a)) = a
\* The label is named in skip, compared ignoring case and spaces
NamedInSkip(label) ==
    \E i \in 1..Len(skip) : NoSpaces(Lower(skip[i])) = NoSpaces(Lower(label))
\* The steps that are not to be skipped among the first n, in their order
RECURSIVE Attempted(_)
Attempted(n) ==
    IF n = 0 THEN <<>>
    ELSE Attempted(n - 1)
            \o (IF NamedInSkip(StepLabels[n]) THEN <<>> ELSE <<StepLabels[n]>>)

\* C26: apply_theme attempts its ten steps in their fixed order; a step
\* that raises neither stops the later steps nor makes apply_theme raise;
\* the log has exactly one status line per step, in that order: "[SKIP]"
\* for a step named in skip (ignoring case and spaces), which is never
\* called, "[FAIL]" for one that raised, "[OK]" otherwise.
C26_StepsIsolated ==
    pc \in {"apply_theme", "applied"} =>
        LET done == step - 1
            status == StatusLines(all_log)
        IN  /\ pc = "applied" => done = Len(StepLabels)
            /\ Len(StepLabels) = 10
            /\ Len(status) = done
            /\ [i \in 1..Len(ran) |-> ran[i].label] = Attempted(done)
            /\ \A i \in 1..done :
                  LET label == StepLabels[i]
                  IN  IF NamedInSkip(label) THEN status[i] = SkipLine(label)
                      ELSE \E a \in 1..Len(ran) :
                              /\ ran[a].label = label
                              /\ IF ran[a].raised
                                 THEN IsPrefix(FailLine(label, <<>>), status[i])
                                 ELSE status[i] = OkLine(label)

\* A finished call that skipped the first and the last step, named in other
\* spellings, and in which a step raised and a later step returned
C26_Witness ==
    /\ pc = "applied"
    /\ Len(skip) = 2
    /\ StatusLines(all_log)[1] = SkipLine(StepLabels[1])
    /\ StatusLines(all_log)[10] = SkipLine(StepLabels[10])
    /\ Len(ran) = 8
    /\ ran[1].raised /\ ~ran[2].raised /\ ran[7].raised /\ ~ran[8].raised
    /\ Len(all_log) > 10


---------------------------------------------------------------------------
(* Claims about the order of the steps of main *)

\* The question was asked and got this answer
Answered(q, a) == \E i \in 1..Len(prompts) : prompts[i] = Asked(q, a)
\* The position of the first event e (0 if it has not happened)
FirstAt(e) ==
    IF Happened(e) THEN CHOOSE i \in 1..Len(events) :
                            events[i] = e /\ \A j \in 1..(i - 1) : events[j] # e
    ELSE 0
Generated == \E i \in 1..Len(Generators) : Happened(Generators[i])

\* C27: in an interactive run, after the answer no to "Proceed with this
\* palette?" main returns 0 without creating the output directory, running
\* a generator or calling apply_theme; files are generated only after the
\* palette was generated and, when interactive, confirmed.
C27_AbortBeforeGeneration ==
    args # <<>> =>
        /\ Answered("Proceed with this palette?", "no") =>
              /\ pc = "returned" /\ exit_code = "0"
              /\ ~Happened("mkdir") /\ ~Generated /\ ~Happened("apply_theme")
        /\ (Happened("mkdir") \/ Generated) =>
              /\ Happened("generate_palette")
              /\ FirstAt("generate_palette") < FirstAt("mkdir")
              /\ \A i \in 1..Len(Generators) : FirstAt("mkdir") < FirstAt(Generators[i])
              /\ Interactive => Answered("Proceed with this palette?", "yes")

\* An interactive run aborted at the palette prompt
C27_Witness ==
    /\ args # <<>>
    /\ Answered("Proceed with this palette?", "no")
    /\ Happened("generate_palette")
    /\ palette # <<>>
    /\ exit_code = "0"
    /\ ~Happened("mkdir")


\* How often the event e has happened
Times(e) == Cardinality({i \in 1..Len(events) : events[i] = e})
Asking(q) == \E i \in 1..Len(prompts) : prompts[i].q = q

\* C28: main calls apply_theme at most once, only after all generators
\* have run, and only if --apply was given or the interactive user answered
\* yes to "Apply theme system-wide now?"; with --no-interactive and without
\* --apply the theme is never applied, and with --apply the apply prompt is
\* not shown.
C28_ApplyOnlyOnRequest ==
    args # <<>> =>
        /\ Times("apply_theme") <= 1
        /\ Happened("apply_theme") =>
              /\ \A i \in 1..Len(Generators) :
                    /\ Happened(Generators[i])
                    /\ FirstAt(Generators[i]) < FirstAt("apply_theme")
              /\ \/ args.apply
                 \/ Interactive /\ Answered("Apply theme system-wide now?", "yes")
        /\ (args.no_interactive /\ ~args.apply) => ~Happened("apply_theme")
        /\ args.apply => ~Asking("Apply theme system-wide now?")

\* An interactive run without --apply that applied the theme on a yes
C28_Witness ==
    /\ args # <<>>
    /\ ~args.apply
    /\ Answered("Apply theme system-wide now?", "yes")
    /\ Times("apply_theme") = 1
    /\ events[Len(events)] = "apply_theme"
    /\ exit_code = "0"


\* main has returned or raised
Over == pc = "returned"
\* No wallpaper argument, no detected wallpaper, and nobody to ask
NoWallpaperToUse == args.wallpaper = "" /\ detected = "" /\ args.no_interactive
\* The run ended at the wallpaper checks: exit code 1 and nothing done
EndedAtChecks == exit_code = "1" /\ events = <<>> /\ palette = <<>>
\* The run got past the wallpaper checks and was not aborted at the
\* palette prompt
PastChecks ==
    Over /\ exit_code # "1" /\ ~Answered("Proceed with this palette?", "no")
FilesGenerated ==
    Happened("mkdir") /\ \A i \in 1..Len(Generators) : Happened(Generators[i])

\* C29 as stated: main returns 1, having extracted, generated, written and
\* applied nothing, whenever no wallpaper is given, detection fails and the
\* run is non-interactive, or the resolved wallpaper path does not exist;
\* every run that gets past these checks and is not aborted at the palette
\* prompt reaches file generation.
C29_ExitOneOrGenerate ==
    (args # <<>> /\ Over) =>
        /\ (NoWallpaperToUse \/ wallpaper_path \notin files) => EndedAtChecks
        /\ exit_code = "1" => EndedAtChecks
        /\ PastChecks => FilesGenerated

\* C29, amended: as above, but a run past the checks reaches file
\* generation only if its wallpaper is an image file and its accent can be
\* parsed; otherwise it ends in the exception of extract_colors or of the
\* accent step, with no file written.
C29_ExitOneOrFatalOrGenerate ==
    (args # <<>> /\ Over) =>
        /\ (NoWallpaperToUse \/ wallpaper_path \notin files) => EndedAtChecks
        /\ exit_code = "1" => EndedAtChecks
        /\ PastChecks =>
              IF wallpaper_path # ImageFile
              THEN exit_code = "OSError" /\ events = <<"extract_colors">>
              ELSE IF ~ParsesAsHex(accent_hex)
              THEN /\ exit_code = "ValueError"
                   /\ ~Happened("generate_palette") /\ ~Happened("mkdir")
              ELSE FilesGenerated /\ exit_code = "0"

\* A run that returned 1 for a typed path that does not exist, having done
\* nothing
C29_Witness ==
    /\ args # <<>>
    /\ Over
    /\ ~NoWallpaperToUse
    /\ wallpaper_path \notin files
    /\ wallpaper_path # ""
    /\ prompts # <<>>
    /\ EndedAtChecks


\* C30: the accent-color name apply_theme writes is that of the palette's
\* normalised accent, and it is never "slate", whatever the raw accent given
\* to generate_palette, because the normalised accent read back from its hex
\* string has a saturation of at least 15.
C30_WrittenAccentNeverSlate ==
    pc = "apply_gnome_settings" =>
        /\ gnome_name # "slate"
        /\ \E rnd \in HslRoundings(hex_to_rgb(palette["accent"])) :
              LET x == hex_to_hsl(palette["accent"], rnd)
              IN  /\ gnome_name = GnomeNameOf(x)
                  /\ FCmp(x.s, x.es, Q(15), 0) >= 0

\* The raw accent is named slate, the written name is not
C30_Witness ==
    /\ pc = "apply_gnome_settings"
    /\ GnomeNameOf(hsl_seen) = "slate"
    /\ gnome_name # "slate"

====================================================================
